---- MODULE Spec2Model ----
(***************************************************************************)
(* A model of the asteroids game loop: the amethyst states (MainGameState, *)
(* PauseState), the systems of GlobalBundle and MainBundle in dispatch     *)
(* order, and the specs entity store with its lazy component inserts and   *)
(* its deferred deletes, which World::maintain applies at the end of every *)
(* frame.                                                                  *)
(*                                                                         *)
(* Units.  Lengths are arena units.  Times are hundredths of a second      *)
(* (Second = 100): 0.1 s (time_to_reload) is ten of them.  Velocities are  *)
(* units per second.  A value of rand.next_f32() is k / RandDen.  Areas    *)
(* are kept divided by pi: radius^2 stands for radius^2 * pi, which keeps  *)
(* every comparison of spawn_asteroid_cluster exact.                       *)
(***************************************************************************)
EXTENDS Integers, Sequences, FiniteSets, TLC

\* ---------------------------------------------------------------- bounds
\* Size of the entity store: a step that needs a fresh entity id is
\* disabled once every id is taken.
MaxEntities == 6
\* The score counter is capped: a scoring contact is disabled at the cap.
MaxScore == 2
\* The number of frames of a run: no frame starts after the last one.
MaxFrames == 8
\* The number of frames of a session, in which the player restarts and pauses.
MaxSessionFrames == 6
MaxSpeedFrames == 5
\* The largest area (over pi) handed to spawn_asteroid_cluster on its own.
MaxArea == 100
\* How far, along each axis, a second entity is placed from the ship.
MaxOffset == 15

\* ------------------------------------------------------- program constants
ARENA_HEIGHT == 300
ARENA_WIDTH == 300
MIN_RADIUS == 4
ShipRadius == 6
BulletRadius == 2
Second == 100
RandDen == 4

\* Physical::new
max_velocity == 100
\* Ship::default
ship_acceleration == 80
time_to_reload == Second \div 10
bullet_velocity == 150
bullet_jitter == 2
\* Bullet::new
time_to_live == 2 * Second
\* RandomAsteroidSystem::new
initial_time_to_spawn == 2 * Second
asteroid_max_velocity == 100
average_spawn_time == Second \div 2

\* ------------------------------------------------------------------ inputs
\* Frame lengths time.delta_seconds() can take: half a second.
DTs == {50}
\* Values k of rand.next_f32() = k / RandDen, per place of use.
\* RandomAsteroidSystem draws five numbers for a spawn: for x, for the
\* scale, for the two velocity components and for the next delay.  The
\* asteroids of the model appear in the middle of the edge, with a radius of
\* 6: one drifting down towards the ship and one at rest.
SpawnRand == {<<2, 2, 2, 0, 0>>, <<2, 2, 2, 2, 0>>}
\* spawn_asteroid_cluster draws two numbers for a child: for the angle
\* added and for the speed.
ClusterRand == {<<2, 0>>, <<2, 2>>}
JitterRand == {2}
\* Values of the "accelerate" axis: absent (<<>>), or full forward thrust.  The
\* "rotate" axis is absent in every frame, so the ship keeps the rotation
\* of Transform::default() and its forward direction is +y.
AccelerateAxis == {<<>>}

\* The ids of the entity store.  A run of whole frames uses the ids of
\* GameIds; the collision pass on its own (SpecResolve) can use one more, for
\* the children of an asteroid that two pairs split.
GameIds == 1 .. MaxEntities
Ids == 1 .. MaxEntities + 1

\* ------------------------------------------------------------------- state
VARIABLES
    pc,             \* the step of the frame that runs next
    mode,           \* the state on top of the state stack: "Main" or "Paused"
    selfImmortal,   \* MainGameState.player_is_immortal
    game,           \* the Game resource
    score,          \* the Score resource with the two texts it points to
    actions,        \* GlobalInputSystem: immortal, restart, pause
    dt,             \* Time: the length of the current frame
    ents,           \* the entity store with the components of each entity
    lazy,           \* LazyUpdate: the inserts queued for World::maintain
    time_to_spawn,  \* RandomAsteroidSystem.time_to_spawn
    pairs,          \* CollisionSystem: the pairs the broad phase reports
    done,           \* CollisionSystem: the pairs already handled
    deferred,       \* CollisionSystem: the `deferred` map (its keys)
    spawned,        \* CollisionSystem: the `spawned` counter
    volume,         \* the area handed to the last spawn_asteroid_cluster call
    input,          \* InputHandler, where a specification fixes it ahead of a tick
    frame           \* the number of frames completed

vars == <<pc, mode, selfImmortal, game, score, actions, dt, ents, lazy,
          time_to_spawn, pairs, done, deferred, spawned, volume, input, frame>>

\* --------------------------------------------------------------- components
\* An entity id together with what the component storages hold for it.
\*   st: "free", "raised" (entities.create() ran, no component attached yet:
\*       no join over a component storage sees it), "live", or "reserved"
\*       (an id entities.create() does not hand out in this run);
\*   killed: entities.delete() ran in this frame (applied by maintain).
NoEntity ==
    [st |-> "free", killed |-> FALSE, collider |-> "None",
     x |-> 0, y |-> 0, vx |-> 0, vy |-> 0, radius |-> 0,
     time_to_live |-> 0, reload_timer |-> 0]

\* An id the run does not hand out.
OutOfUse == [NoEntity EXCEPT !.st = "reserved"]

\* The entry of id e in a world that holds no entity.
Vacant(e) == IF e \in GameIds THEN NoEntity ELSE OutOfUse

\* An InputHandler with no key down and no axis moved.
NoInput == [shoot |-> FALSE, accelerate |-> <<>>]

Colliders == {"Ship", "Bullet", "Asteroid", "Deferred(Bullet)", "Deferred(Asteroid)"}

IsDeferred(c) == c \in {"Deferred(Bullet)", "Deferred(Asteroid)"}

\* DeferredCollider::to_collider: the kind a deferred collider turns into.
to_collider(c) ==
    IF c = "Deferred(Bullet)" THEN "Bullet"
    ELSE IF c = "Deferred(Asteroid)" THEN "Asteroid"
    ELSE c

\* Modifiers::as_text: the words shown for the modifiers.
as_text(m) ==
    (IF m.player_is_immortal THEN <<"immortal">> ELSE <<>>)
        \o (IF m.player_is_dead THEN <<"dead">> ELSE <<>>)

\* u32::to_string: the decimal digits of n, most significant first.
RECURSIVE to_string(_)
to_string(n) ==
    IF n < 10 THEN <<n>> ELSE Append(to_string(n \div 10), n % 10)

\* A join that leaves out the entities deleted earlier in the frame.
JoinedUndeleted(E) == {e \in Ids : E[e].st = "live" /\ ~E[e].killed}

\* Join over (&entities, storages...): the entities that hold components.
\* An entity deleted earlier in the frame is still joined: the delete is
\* applied by World::maintain.
Joined(E) == {e \in Ids : E[e].st = "live"}

\* entities.create(): an id no entity holds.
FreeIds(E) == {e \in Ids : E[e].st = "free"}
NextId(E) == CHOOSE e \in FreeIds(E) : \A f \in FreeIds(E) : e <= f

\* entities.delete(e): recorded, applied by World::maintain.
DeleteEntity(E, e) == [E EXCEPT ![e].killed = TRUE]

\* initialise_ship: one ship in the middle of the arena.
initialise_ship ==
    [NoEntity EXCEPT !.st = "live", !.collider = "Ship",
                     !.x = ARENA_WIDTH \div 2, !.y = ARENA_HEIGHT \div 2,
                     !.radius = ShipRadius, !.reload_timer = 0]

\* Game::default with the immortal flag of the state that starts.
NewGame(immortal) ==
    [restart |-> FALSE, pause |-> FALSE,
     modifiers |-> [player_is_immortal |-> immortal, player_is_dead |-> FALSE]]

\* initialize_score
initialize_score(g) ==
    [asteroids |-> 0, score_text |-> to_string(0),
     current_modifiers |-> g.modifiers, modifiers_text |-> as_text(g.modifiers)]

\* MainGameState::on_start on the world as it is, had the restart not
\* called world.delete_all() before it.
on_start_without_delete_all(immortal) ==
    /\ game' = NewGame(immortal)
    /\ score' = initialize_score(NewGame(immortal))
    /\ ents' = [ents EXCEPT ![NextId(ents)] = initialise_ship]

\* MainGameState::on_start on a world that holds no entity.
on_start(immortal) ==
    /\ game' = NewGame(immortal)
    /\ score' = initialize_score(NewGame(immortal))
    /\ ents' = [e \in Ids |-> IF e = 1 THEN initialise_ship ELSE Vacant(e)]

Init ==
    /\ pc = "base"
    /\ mode = "Main"
    /\ selfImmortal \in BOOLEAN
    /\ game = NewGame(selfImmortal)
    /\ score = initialize_score(game)
    /\ actions = [immortal |-> "Inactive", restart |-> "Inactive", pause |-> "Inactive"]
    /\ dt \in DTs
    /\ ents = [e \in Ids |-> IF e = 1 THEN initialise_ship ELSE Vacant(e)]
    /\ lazy = <<>>
    /\ time_to_spawn = initial_time_to_spawn
    /\ pairs = {}
    /\ done = {}
    /\ deferred = {}
    /\ spawned = 0
    /\ volume = 0
    /\ input = NoInput
    /\ frame = 0

\* ------------------------------------------------------------ global input
\* An action that is activated in every frame in which its key is down.
ActionTestWhileDown(state, down) ==
    [state |-> IF down THEN "Active" ELSE "Inactive", activated |-> down]

\* Action::test reporting the release of the key as the activation.
ActionTestOnRelease(state, down) ==
    [state |-> IF down THEN "Active" ELSE "Inactive",
     activated |-> state = "Active" /\ ~down]

\* Action::test: the new state of the action and whether it was activated.
ActionTest(state, down) ==
    IF state = "Inactive"
    THEN IF down THEN [state |-> "Active", activated |-> TRUE]
         ELSE [state |-> "Inactive", activated |-> FALSE]
    ELSE IF ~down THEN [state |-> "Inactive", activated |-> FALSE]
         ELSE [state |-> "Active", activated |-> FALSE]

\* The keys bound to an action.  While the game is played only the key of
\* "immortal" is touched; a session also uses the other two.
Keys == {"immortal", "restart", "pause"}
PlayKeys == {"immortal"}

\* The frame of a state that dispatches the main systems also while the game
\* is paused.
GlobalInputThenMain(K, frames) ==
    /\ pc = "base"
    /\ frame < frames
    /\ \E keys \in SUBSET K, d \in DTs :
        LET i == ActionTest(actions.immortal, "immortal" \in keys)
            r == ActionTest(actions.restart, "restart" \in keys)
            p == ActionTest(actions.pause, "pause" \in keys)
        IN  /\ actions' = [immortal |-> i.state, restart |-> r.state, pause |-> p.state]
            /\ game' = [game EXCEPT
                    !.modifiers.player_is_immortal = IF i.activated THEN ~@ ELSE @,
                    !.restart = IF r.activated THEN TRUE ELSE @,
                    !.pause = IF p.activated THEN TRUE ELSE @]
            /\ dt' = d
    /\ pc' = "kill_bullets"
    /\ UNCHANGED <<frame, input, mode, selfImmortal, score, ents, lazy, time_to_spawn,
                   pairs, done, deferred, spawned, volume>>

\* base.update(world): GlobalInputSystem::run, first in every frame of both
\* states, with the keys of K free to be down, for a run of so many frames.
\* The frame length is sampled here.
GlobalInput(K, frames) ==
    /\ pc = "base"
    /\ frame < frames
    /\ \E keys \in SUBSET K, d \in DTs :
        LET i == ActionTest(actions.immortal, "immortal" \in keys)
            r == ActionTest(actions.restart, "restart" \in keys)
            p == ActionTest(actions.pause, "pause" \in keys)
        IN  /\ actions' = [immortal |-> i.state, restart |-> r.state, pause |-> p.state]
            /\ game' = [game EXCEPT
                    !.modifiers.player_is_immortal = IF i.activated THEN ~@ ELSE @,
                    !.restart = IF r.activated THEN TRUE ELSE @,
                    !.pause = IF p.activated THEN TRUE ELSE @]
            /\ dt' = d
    /\ pc' = IF mode = "Main" THEN "kill_bullets" ELSE "pause_update"
    /\ UNCHANGED <<frame, input, mode, selfImmortal, score, ents, lazy, time_to_spawn,
                   pairs, done, deferred, spawned, volume>>

GlobalInputSystem == GlobalInput(PlayKeys, MaxFrames)

SessionInputSystem == GlobalInput(Keys, MaxSessionFrames)


\* ------------------------------------------------------------ entity store
\* entities.create() followed by an insert of every component that takes
\* effect at once.
CreateAtOnce(w, comp) ==
    IF FreeIds(w.ents) = {} THEN [w EXCEPT !.full = TRUE]
    ELSE [w EXCEPT !.ents = [w.ents EXCEPT ![NextId(w.ents)] = comp]]

\* entities.create() followed by lazy.insert of every component of `comp`:
\* the id is taken at once, the components arrive with World::maintain.
CreateLazy(w, comp) ==
    IF FreeIds(w.ents) = {} THEN [w EXCEPT !.full = TRUE]
    ELSE LET e == NextId(w.ents)
         IN  [w EXCEPT !.ents = [w.ents EXCEPT ![e].st = "raised"],
                       !.lazy = Append(w.lazy, [e |-> e, all |-> TRUE, comp |-> comp])]

\* What a system reads and writes while it runs; `full` is set when the
\* entity store has no id left for an entities.create().
World == [ents |-> ents, lazy |-> lazy, game |-> game, score |-> score,
          spawned |-> spawned, volume |-> volume, full |-> FALSE]

\* One queued insert applied by LazyUpdate::maintain: an insert for an
\* entity that is no longer alive fails and is dropped.  op.all tells the
\* inserts of every component of a new entity from the insert of a collider.
ApplyInsert(E, op) ==
    IF E[op.e].st = "free" THEN E
    ELSE IF op.all THEN [E EXCEPT ![op.e] = op.comp]
    ELSE [E EXCEPT ![op.e].collider = op.comp.collider]

RECURSIVE ApplyLazy(_, _)
ApplyLazy(E, ops) ==
    IF ops = <<>> THEN E ELSE ApplyLazy(ApplyInsert(E, Head(ops)), Tail(ops))

\* EntitiesRes::merge: the deletes of the frame are applied, the components
\* of a deleted entity are dropped and its id is free again.
Merge(E) == [e \in Ids |-> IF E[e].killed THEN NoEntity ELSE E[e]]

\* ---------------------------------------------------------- KillBulletsSystem
IsBullet(ent) == ent.collider \in {"Bullet", "Deferred(Bullet)"}

\* The loop body with "bullet.time_to_live < 0.0" for its test.
KillBulletStrict(ent, d) ==
    LET left == ent.time_to_live - d
    IN  [ent EXCEPT !.time_to_live = left,
                    !.killed = IF left < 0 THEN TRUE ELSE @]

KillBullet(ent, d) ==
    LET left == ent.time_to_live - d
    IN  [ent EXCEPT !.time_to_live = left,
                    !.killed = IF left <= 0 THEN TRUE ELSE @]

\* "for (e, bullet) in (&*entities, &mut bullets).join()"
KillBullets(E, d) ==
    [e \in Ids |-> IF e \in Joined(E) /\ IsBullet(E[e]) THEN KillBullet(E[e], d) ELSE E[e]]

KillBulletsSystem ==
    /\ pc = "kill_bullets"
    /\ ents' = KillBullets(ents, dt)
    /\ pc' = "random_asteroids"
    /\ UNCHANGED <<frame, input, mode, selfImmortal, game, score, actions, dt, lazy,
                   time_to_spawn, pairs, done, deferred, spawned, volume>>

\* -------------------------------------------------------------- spawn_asteroid
\* asteroid_resource.new_bounded(scale): a ball of radius MIN_RADIUS * scale,
\* the scale given in units of 1 / RandDen.
new_bounded(scaleQ) == (MIN_RADIUS * scaleQ) \div RandDen

\* spawn_asteroid giving every asteroid the collider Asteroid at once.
spawn_asteroid_undeferred(w, x, y, scaleQ, vx, vy, defer_adding_bounds) ==
    CreateLazy(w,
        [NoEntity EXCEPT
            !.st = "live", !.collider = "Asteroid",
            !.x = x, !.y = y, !.vx = vx, !.vy = vy,
            !.radius = new_bounded(scaleQ)])

spawn_asteroid(w, x, y, scaleQ, vx, vy, defer_adding_bounds) ==
    CreateLazy(w,
        [NoEntity EXCEPT
            !.st = "live",
            !.collider = IF defer_adding_bounds THEN "Deferred(Asteroid)" ELSE "Asteroid",
            !.x = x, !.y = y, !.vx = vx, !.vy = vy,
            !.radius = new_bounded(scaleQ)])

\* ------------------------------------------------------- RandomAsteroidSystem
\* r(): (rand.next_f32() - 0.5) * 2.0 * max_velocity
RandVelocity(k) == ((2 * k - RandDen) * asteroid_max_velocity) \div RandDen

RandomAsteroidSystem ==
    /\ pc = "random_asteroids"
    /\ IF time_to_spawn - dt <= 0
       THEN \E k \in SpawnRand :
                 LET w == spawn_asteroid(World,
                              (k[1] * ARENA_HEIGHT) \div RandDen, ARENA_WIDTH,
                              RandDen + k[2],
                              RandVelocity(k[3]), RandVelocity(k[4]), FALSE)
                 IN  /\ ~w.full
                     /\ ents' = w.ents
                     /\ lazy' = w.lazy
                     /\ time_to_spawn' = (k[5] * average_spawn_time) \div RandDen
       ELSE /\ time_to_spawn' = time_to_spawn - dt
            /\ UNCHANGED <<ents, lazy>>
    /\ pc' = "ship_input_system"
    /\ UNCHANGED <<frame, input, mode, selfImmortal, game, score, actions, dt,
                   pairs, done, deferred, spawned, volume>>

\* ------------------------------------------------------------ ShipInputSystem
RECURSIVE ISqrtFrom(_, _)
ISqrtFrom(n, r) == IF (r + 1) * (r + 1) > n THEN r ELSE ISqrtFrom(n, r + 1)
\* Vector2::magnitude, rounded down to a whole unit.
Magnitude(vx, vy) == ISqrtFrom(vx * vx + vy * vy, 0)

\* "limit velocity": a velocity longer than max_velocity is scaled to it.
LimitVelocity(vx, vy) ==
    IF vx * vx + vy * vy > max_velocity * max_velocity
    THEN [vx |-> (vx * max_velocity) \div Magnitude(vx, vy),
          vy |-> (vy * max_velocity) \div Magnitude(vx, vy)]
    ELSE [vx |-> vx, vy |-> vy]

\* "handle acceleration": the thrust is added along the forward direction.
Accelerate(ent, axis, d) ==
    IF axis = <<>> THEN ent
    ELSE LET v == LimitVelocity(ent.vx,
                      ent.vy + (ship_acceleration * d * axis[1]) \div Second)
         IN  [ent EXCEPT !.vx = v.vx, !.vy = v.vy]

\* ------------------------------------------------------------ f32 arithmetic
\* The velocity of the ship to the last bit.  An f32 is a whole number: the
\* bit pattern of its absolute value (8 bits of biased exponent above 23 bits
\* of fraction) with the sign of the number, so that the order of the numbers
\* is the order of the floats and a difference of one is one unit in the last
\* place.  The operations round to nearest, ties to even, as the hardware
\* does; the values of the game are normal numbers far from overflow.  Each
\* operation binds its operands to their values first, so that an operand
\* that is itself an operation is computed once.
Abs(n) == IF n < 0 THEN 0 - n ELSE n

Sign(n) == IF n < 0 THEN 0 - 1 ELSE 1

\* The 24-bit significand of a float and the power of two it is scaled by.
F32Mant(b) == IF b = 0 THEN 0 ELSE (Abs(b) % (2^23)) + 2^23

F32Exp(b) == (Abs(b) \div (2^23)) - 150

F32Pack(sign, m, e) == sign * ((e + 150) * (2^23) + (m - 2^23))

RECURSIVE BitLen(_)
BitLen(q) == IF q = 0 THEN 0 ELSE 1 + BitLen(q \div 2)

\* The float nearest to sign * (q + f) * 2^e for q of k bits above 24,
\* where f is 0, or a fraction strictly between 0 and 1 when sticky is set.
RoundBits(sign, q, e, sticky, k) ==
    IF k <= 0 THEN F32Pack(sign, q * (2^(0 - k)), e + k)
    ELSE LET m == q \div (2^k)
             rest == q % (2^k)
             half == 2^(k - 1)
             up == \/ rest > half
                   \/ rest = half /\ (sticky \/ m % 2 = 1)
         IN  IF up /\ m + 1 = 2^24 THEN F32Pack(sign, 2^23, e + k + 1)
             ELSE F32Pack(sign, IF up THEN m + 1 ELSE m, e + k)

F32Round(sign, q, e, sticky) ==
    IF q = 0 THEN 0
    ELSE CHOOSE f \in {RoundBits(sign, n, e, sticky, BitLen(n) - 24) : n \in {q}} : TRUE

\* The float of a whole number below 2^24.
F32(n) == F32Round(Sign(n), Abs(n), 0, FALSE)

F32Neg(a) == 0 - a

\* The 48-bit product of two significands from their 12-bit halves, as its
\* upper and lower 24 bits.
Product(ma, mb) ==
    LET ah == ma \div (2^12)
        al == ma % (2^12)
        bh == mb \div (2^12)
        bl == mb % (2^12)
        cross == ah * bl + al * bh
        low == al * bl + (cross % (2^12)) * (2^12)
    IN  [hi |-> ah * bh + cross \div (2^12) + low \div (2^24), lo |-> low % (2^24)]

\* a * b.
F32Mul(a, b) ==
    CHOOSE f \in {IF x = 0 \/ y = 0 THEN 0
                  ELSE LET p == Product(F32Mant(x), F32Mant(y))
                       IN  F32Round(Sign(x) * Sign(y), p.hi * 4 + p.lo \div (2^22),
                                    F32Exp(x) + F32Exp(y) + 22, p.lo % (2^22) # 0) :
                  x \in {a}, y \in {b}} : TRUE

\* Seven more bits of the quotient r / d, for r below d: the bits and the
\* remainder.
DivBits(r, d) == [q |-> (r * (2^7)) \div d, r |-> (r * (2^7)) % d]

\* ma / mb to 28 bits after the point, by long division, and whether a
\* remainder is left.
Quotient(ma, mb) ==
    LET s1 == DivBits(ma % mb, mb)
        s2 == DivBits(s1.r, mb)
        s3 == DivBits(s2.r, mb)
        s4 == DivBits(s3.r, mb)
    IN  [q |-> ((((ma \div mb) * (2^7) + s1.q) * (2^7) + s2.q) * (2^7) + s3.q) * (2^7) + s4.q,
         sticky |-> s4.r # 0]

\* a / b for b other than zero.
F32Div(a, b) ==
    CHOOSE f \in {IF x = 0 THEN 0
                  ELSE LET r == Quotient(F32Mant(x), F32Mant(y))
                       IN  F32Round(Sign(x) * Sign(y), r.q,
                                    F32Exp(x) - F32Exp(y) - 28, r.sticky) :
                  x \in {a}, y \in {b}} : TRUE

\* The square root of m * 4^14, digit by digit from base-4 digit i of m
\* down to digit -14, and whether a remainder is left.
RECURSIVE SqrtBits(_, _, _, _)
SqrtBits(m, i, r, q) ==
    IF i < 0 - 14 THEN [q |-> q, sticky |-> r # 0]
    ELSE CHOOSE s \in {IF rem >= 4 * q + 1
                       THEN SqrtBits(m, i - 1, rem - (4 * q + 1), 2 * q + 1)
                       ELSE SqrtBits(m, i - 1, rem, 2 * q) :
                       rem \in {4 * r + (IF i >= 0 THEN (m \div (4^i)) % 4 ELSE 0)}} : TRUE

\* The square root of a float that is not negative.
F32Sqrt(a) ==
    CHOOSE f \in {IF x = 0 THEN 0
                  ELSE LET odd == F32Exp(x) % 2 = 1
                           m == IF odd THEN 2 * F32Mant(x) ELSE F32Mant(x)
                           e == IF odd THEN F32Exp(x) - 1 ELSE F32Exp(x)
                           r == SqrtBits(m, 12, 0, 0)
                       IN  F32Round(1, r.q, e \div 2 - 14, r.sticky) :
                  x \in {a}} : TRUE

\* The sum of a larger and a smaller number: the smaller one is shifted
\* under three guard bits of the larger.
Sum(big, small) ==
    LET d == F32Exp(big) - F32Exp(small)
        A == F32Mant(big) * 8
        far == d > 27
        B == IF far THEN 0 ELSE (F32Mant(small) * 8) \div (2^d)
        sticky == IF far THEN TRUE ELSE (F32Mant(small) * 8) % (2^d) # 0
    IN  IF Sign(big) = Sign(small)
        THEN F32Round(Sign(big), A + B, F32Exp(big) - 3, sticky)
        ELSE F32Round(Sign(big), IF sticky THEN A - B - 1 ELSE A - B,
                      F32Exp(big) - 3, sticky)

\* a + b.
F32Add(a, b) ==
    CHOOSE f \in {IF x = 0 THEN y
                  ELSE IF y = 0 THEN x
                  ELSE IF Abs(x) >= Abs(y) THEN Sum(x, y) ELSE Sum(y, x) :
                  x \in {a}, y \in {b}} : TRUE

\* Vector2::magnitude of an f32 vector.
F32Magnitude(vx, vy) == F32Sqrt(F32Add(F32Mul(vx, vx), F32Mul(vy, vy)))

\* time.delta_seconds() for a frame of d hundredths of a second.
F32Seconds(d) == F32Div(F32(d), F32(Second))

\* "limit velocity" in f32: the velocity is divided by magnitude / max_velocity.
F32LimitVelocity(vx, vy) ==
    LET magnitude == F32Magnitude(vx, vy)
    IN  IF magnitude > F32(max_velocity)
        THEN LET by == F32Div(magnitude, F32(max_velocity))
             IN  [vx |-> F32Div(vx, by), vy |-> F32Div(vy, by)]
        ELSE [vx |-> vx, vy |-> vy]

\* The velocity after "added" is added to it, for a ship that faces up the
\* y axis: Vector3::y() * ship.acceleration * time_delta * acceleration.
F32Thrust(vx, vy, axis, d) ==
    [vx |-> vx,
     vy |-> F32Add(vy, F32Mul(F32Mul(F32(ship_acceleration), F32Seconds(d)), F32(axis)))]

\* "handle acceleration" in f32, on a ship whose vx and vy are f32.
F32Accelerate(ent, axis, d) ==
    IF axis = <<>> THEN ent
    ELSE LET u == F32Thrust(ent.vx, ent.vy, axis[1], d)
             v == F32LimitVelocity(u.vx, u.vy)
         IN  [ent EXCEPT !.vx = v.vx, !.vy = v.vy]

\* The reload without "if ship.reload_timer < 0.0 { ship.reload_timer = 0.0 }".
ReloadUnclamped(timer, shoot, d) ==
    IF timer <= 0
    THEN IF shoot THEN [timer |-> time_to_reload, fired |-> TRUE]
         ELSE [timer |-> timer, fired |-> FALSE]
    ELSE [timer |-> timer - d, fired |-> FALSE]

\* The reload that counts down first and shoots in the tick in which the
\* timer reaches zero.
ReloadFiringAtZero(timer, shoot, d) ==
    LET left == IF timer - d < 0 THEN 0 ELSE timer - d
    IN  IF left = 0 /\ shoot THEN [timer |-> time_to_reload, fired |-> TRUE]
        ELSE [timer |-> left, fired |-> FALSE]

\* "handle shooting with a reload": the new timer and whether a bullet is
\* pushed to new_bullets.
Reload(timer, shoot, d) ==
    IF timer <= 0
    THEN IF shoot THEN [timer |-> time_to_reload, fired |-> TRUE]
         ELSE [timer |-> timer, fired |-> FALSE]
    ELSE [timer |-> IF timer - d < 0 THEN 0 ELSE timer - d, fired |-> FALSE]

\* The bullet given a velocity of the max_velocity of its Physical.
NewBulletLimited(ship, kj) ==
    [NoEntity EXCEPT
        !.st = "live",
        !.collider = "Deferred(Bullet)",
        !.x = ship.x + ((2 * kj - RandDen) * bullet_jitter) \div (2 * RandDen),
        !.y = ship.y, !.vx = 0, !.vy = max_velocity,
        !.radius = BulletRadius, !.time_to_live = time_to_live]

\* The components of a new bullet: at the ship, moved sideways by the jitter,
\* flying forward.
NewBullet(ship, kj) ==
    [NoEntity EXCEPT
        !.st = "live",
        !.collider = "Deferred(Bullet)",
        !.x = ship.x + ((2 * kj - RandDen) * bullet_jitter) \div (2 * RandDen),
        !.y = ship.y, !.vx = 0, !.vy = bullet_velocity,
        !.radius = BulletRadius, !.time_to_live = time_to_live]

Ships(E) == {e \in Joined(E) : E[e].collider = "Ship"}

\* ShipInputSystem::run on the world w, for the axis value, the state of the
\* shoot action, the random number of the jitter and the frame length.
ShipInput(w, accelerate, shoot, kj, d) ==
    IF Ships(w.ents) = {} THEN w
    ELSE LET s == CHOOSE e \in Ships(w.ents) : TRUE
             moved == Accelerate(w.ents[s], accelerate, d)
             r == Reload(moved.reload_timer, shoot, d)
             w1 == [w EXCEPT !.ents[s] = [moved EXCEPT !.reload_timer = r.timer]]
         IN  IF r.fired THEN CreateLazy(w1, NewBullet(moved, kj)) ELSE w1

ShipInputSystem ==
    /\ pc = "ship_input_system"
    /\ \E accelerate \in AccelerateAxis, shoot \in BOOLEAN, kj \in JitterRand :
          LET w == ShipInput(World, accelerate, shoot, kj, dt)
          IN  ~w.full /\ ents' = w.ents /\ lazy' = w.lazy
    /\ pc' = "physics_system"
    /\ UNCHANGED <<frame, input, mode, selfImmortal, game, score, actions, dt,
                   time_to_spawn, pairs, done, deferred, spawned, volume>>

\* -------------------------------------------------------------- PhysicsSystem
Move(ent, d) ==
    [ent EXCEPT !.x = @ + (ent.vx * d) \div Second,
                !.y = @ + (ent.vy * d) \div Second]

\* PhysicsSystem followed by CollisionSystem, with LimitObjectsSystem left
\* for later.
PhysicsBeforeCollisions ==
    /\ pc = "physics_system"
    /\ ents' = [e \in Ids |-> IF e \in Joined(ents) THEN Move(ents[e], dt) ELSE ents[e]]
    /\ pc' = "collisions"
    /\ UNCHANGED <<frame, input, mode, selfImmortal, game, score, actions, dt, lazy,
                   time_to_spawn, pairs, done, deferred, spawned, volume>>

\* PhysicsSystem::run
PhysicsSystem ==
    /\ pc = "physics_system"
    /\ ents' = [e \in Ids |-> IF e \in Joined(ents) THEN Move(ents[e], dt) ELSE ents[e]]
    /\ pc' = "limit_objects"
    /\ UNCHANGED <<frame, input, mode, selfImmortal, game, score, actions, dt, lazy,
                   time_to_spawn, pairs, done, deferred, spawned, volume>>

\* ---------------------------------------------------------- LimitObjectsSystem
\* The wrap with the test of the upper edge only.
WrapUpperOnly(t, size) == IF t > size THEN t - size ELSE t

\* A wall that sends the entity back in place of the wrap.
WrapMirrored(t, size) == IF t < 0 THEN 0 - t ELSE IF t > size THEN 2 * size - t ELSE t

Wrap(t, size) == IF t < 0 THEN t + size ELSE IF t > size THEN t - size ELSE t

LimitObjectsSystem ==
    /\ pc = "limit_objects"
    /\ ents' = [e \in Ids |->
                  IF e \in Joined(ents)
                  THEN [ents[e] EXCEPT !.x = Wrap(@, ARENA_WIDTH),
                                       !.y = Wrap(@, ARENA_HEIGHT)]
                  ELSE ents[e]]
    /\ pc' = "collisions"
    /\ UNCHANGED <<frame, input, mode, selfImmortal, game, score, actions, dt, lazy,
                   time_to_spawn, pairs, done, deferred, spawned, volume>>


\* ------------------------------------------------------------ CollisionSystem
\* Bounded::apply_to_broad_phase: the axis-aligned box of the ball at the
\* translation of the entity.
Aabb(ent) ==
    [minx |-> ent.x - ent.radius, maxx |-> ent.x + ent.radius,
     miny |-> ent.y - ent.radius, maxy |-> ent.y + ent.radius]

\* DBVTBroadPhase with a margin of zero: two proxies are a pair when their
\* boxes intersect (touching boxes do).
Intersects(p, q) ==
    /\ p.minx <= q.maxx /\ q.minx <= p.maxx
    /\ p.miny <= q.maxy /\ q.miny <= p.maxy

BroadPhasePairs(E) ==
    {{a, b} : a \in Joined(E), b \in Joined(E)}
        \cap {p \in SUBSET Ids :
                /\ Cardinality(p) = 2
                /\ \A a \in p, b \in p :
                      a # b => Intersects(Aabb(E[a]), Aabb(E[b]))}

\* The first part of CollisionSystem::run: every entity with a transform, a
\* collider and a bounding volume gets a proxy, every deferred one an entry
\* in `deferred`; then the broad phase finds the pairs.
CollisionBuild ==
    /\ pc = "collisions"
    /\ pairs' = BroadPhasePairs(ents)
    /\ done' = {}
    /\ deferred' = {e \in Joined(ents) : IsDeferred(ents[e].collider)}
    /\ spawned' = 0
    /\ volume' = 0
    /\ pc' = "resolve"
    /\ UNCHANGED <<frame, input, mode, selfImmortal, game, score, actions, dt, ents, lazy,
                   time_to_spawn>>

\* asteroid_data: the translation and the area (over pi) of an asteroid.
asteroid_data(E, e) == [x |-> E[e].x, y |-> E[e].y, volume |-> E[e].radius * E[e].radius]

min_area == MIN_RADIUS * MIN_RADIUS

\* The while loop with "c >= min_area * 2.0" for its condition.
RECURSIVE ClusterCountInclusive(_)
ClusterCountInclusive(c) ==
    IF c >= min_area * 2 THEN 1 + ClusterCountInclusive(c - min_area) ELSE 0

\* spawn_asteroid_cluster, the while loop: the number of asteroids to spawn.
RECURSIVE ClusterCount(_)
ClusterCount(c) == IF c > min_area * 2 THEN 1 + ClusterCount(c - min_area) ELSE 0

\* The direction of an angle given in quarter turns, as a unit vector.
Direction(q) ==
    CASE q % 4 = 0 -> <<1, 0>>
      [] q % 4 = 1 -> <<0, 1>>
      [] q % 4 = 2 -> <<-1, 0>>
      [] q % 4 = 3 -> <<0, -1>>

\* spawn_asteroid_cluster, the for loop: the asteroids still to spawn, each
\* at `local`, of scale 1, deferred.  rs[i] = <<ka, ks>> are the two random
\* numbers of round i; `angle` is kept in units of pi / RandDen.
RECURSIVE SpawnCluster(_, _, _, _, _, _)
SpawnCluster(w, x, y, angle, rs, i) ==
    IF i > Len(rs) THEN w
    ELSE LET a == angle + rs[i][1]
             dir == Direction((2 * a) \div RandDen)
             speed == (100 * rs[i][2]) \div RandDen
         IN  SpawnCluster(
                 spawn_asteroid(w, x, y, RandDen, dir[1] * speed, dir[2] * speed, TRUE),
                 x, y, a, rs, i + 1)

spawn_asteroid_cluster(w, x, y, c, rs) ==
    [SpawnCluster(w, x, y, 0, rs, 1)
        EXCEPT !.spawned = @ + ClusterCount(c)]

\* The random numbers spawn_asteroid_cluster draws when entity e is handled:
\* a pair for each asteroid it spawns.
ClusterRands(E, e) ==
    [1 .. (IF E[e].collider = "Asteroid"
           THEN ClusterCount(asteroid_data(E, e).volume) ELSE 0) -> ClusterRand]

\* "if !asteroids.is_empty()": the asteroids collected for one entity are
\* added up and averaged, and a cluster is spawned for them.
SplitAsteroids(w, asteroids, rs) ==
    IF asteroids = <<>> THEN w
    ELSE LET n == Len(asteroids)
             sx == IF n = 1 THEN asteroids[1].x ELSE asteroids[1].x + asteroids[2].x
             sy == IF n = 1 THEN asteroids[1].y ELSE asteroids[1].y + asteroids[2].y
             vol == IF n = 1 THEN asteroids[1].volume
                    ELSE asteroids[1].volume + asteroids[2].volume
         IN  [spawn_asteroid_cluster(w, sx \div n, sy \div n, vol, rs)
                 EXCEPT !.volume = vol]

\* One round of the loop without the arm that skips an immortal ship.
HandleColliderMortal(w, e, rs) ==
    LET kind == w.ents[e].collider
        w1 == IF kind = "Ship"
              THEN [w EXCEPT !.game.modifiers.player_is_dead = TRUE]
              ELSE w
        asteroids == IF kind = "Asteroid" THEN <<asteroid_data(w.ents, e)>> ELSE <<>>
        w2 == SplitAsteroids(w1, asteroids, rs)
    IN  [w2 EXCEPT !.ents = DeleteEntity(w2.ents, e)]

\* One round of the loop in which a ship dies without being deleted.
HandleColliderKeepingShip(w, e, rs) ==
    LET kind == w.ents[e].collider
    IN  IF kind = "Ship"
        THEN IF w.game.modifiers.player_is_immortal THEN w
             ELSE [w EXCEPT !.game.modifiers.player_is_dead = TRUE]
        ELSE LET asteroids == IF kind = "Asteroid"
                              THEN <<asteroid_data(w.ents, e)>> ELSE <<>>
                 w2 == SplitAsteroids(w, asteroids, rs)
             IN  [w2 EXCEPT !.ents = DeleteEntity(w2.ents, e)]

\* One round of the loop in which the ship of an immortal player does not
\* die but is deleted like any other entity.
HandleColliderDeletingImmortal(w, e, rs) ==
    LET kind == w.ents[e].collider
        w1 == IF kind = "Ship" /\ ~w.game.modifiers.player_is_immortal
              THEN [w EXCEPT !.game.modifiers.player_is_dead = TRUE]
              ELSE w
        asteroids == IF kind = "Asteroid" THEN <<asteroid_data(w.ents, e)>> ELSE <<>>
        w2 == SplitAsteroids(w1, asteroids, rs)
    IN  [w2 EXCEPT !.ents = DeleteEntity(w2.ents, e)]

\* One round of "for c in &[a, b]": an immortal ship is skipped; a ship
\* dies; an asteroid is split; the entity is deleted.
HandleCollider(w, e, rs) ==
    LET kind == w.ents[e].collider
    IN  IF kind = "Ship" /\ w.game.modifiers.player_is_immortal THEN w
        ELSE LET w1 == IF kind = "Ship"
                       THEN [w EXCEPT !.game.modifiers.player_is_dead = TRUE]
                       ELSE w
                 asteroids == IF kind = "Asteroid"
                              THEN <<asteroid_data(w.ents, e)>> ELSE <<>>
                 w2 == SplitAsteroids(w1, asteroids, rs)
             IN  [w2 EXCEPT !.ents = DeleteEntity(w2.ents, e)]

\* The point counted without the write to the text of the score.
AddPointSilent(w) == [w EXCEPT !.score.asteroids = @ + 1]

\* "we get a point!"
AddPoint(w) ==
    [w EXCEPT !.score.asteroids = @ + 1,
              !.score.score_text = to_string(w.score.asteroids + 1)]

\* The arm of the point taken by every pair with an asteroid in it.
IsPointAnyAsteroid(ka, kb) == "Asteroid" \in {ka, kb}

\* The arm of the point with one of its two patterns only.
IsPointBulletFirst(ka, kb) == ka = "Bullet" /\ kb = "Asteroid"

\* "((Bullet, _), (Asteroid, _)) | ((Asteroid, _), (Bullet, _))"
IsPoint(ka, kb) ==
    \/ ka = "Bullet" /\ kb = "Asteroid"
    \/ ka = "Asteroid" /\ kb = "Bullet"

\* "for c in &[a, b]", after the arm of the point.
ForColliders(w, a, b, ra, rb) ==
    LET w1 == IF IsPoint(w.ents[a].collider, w.ents[b].collider) THEN AddPoint(w) ELSE w
    IN  HandleCollider(HandleCollider(w1, a, ra), b, rb)

\* The handler with an arm that ignores a pair of a bullet and the ship.
HandlePairSparingOwnShip(w, a, b, ra, rb) ==
    LET ka == w.ents[a].collider
        kb == w.ents[b].collider
    IN  IF IsDeferred(ka) /\ IsDeferred(kb) THEN [w |-> w, seen |-> {a, b}]
        ELSE IF IsDeferred(ka) THEN [w |-> w, seen |-> {a}]
        ELSE IF IsDeferred(kb) THEN [w |-> w, seen |-> {b}]
        ELSE IF {ka, kb} = {"Bullet", "Ship"} THEN [w |-> w, seen |-> {}]
        ELSE [w |-> ForColliders(w, a, b, ra, rb), seen |-> {}]

\* The handler without the two arms of the deferred colliders.
HandlePairWithoutGrace(w, a, b, ra, rb) ==
    [w |-> ForColliders(w, a, b, ra, rb), seen |-> {}]

\* The handler with an arm for two deferred colliders only: a deferred
\* collider that meets another kind is left in `deferred`.
HandlePairSiblingsOnly(w, a, b, ra, rb) ==
    LET ka == w.ents[a].collider
        kb == w.ents[b].collider
    IN  IF IsDeferred(ka) /\ IsDeferred(kb) THEN [w |-> w, seen |-> {a, b}]
        ELSE IF IsDeferred(ka) \/ IsDeferred(kb) THEN [w |-> w, seen |-> {}]
        ELSE [w |-> ForColliders(w, a, b, ra, rb), seen |-> {}]

\* The handler with an arm that returns for every pair of an immortal ship.
HandlePairSparingBoth(w, a, b, ra, rb) ==
    LET ka == w.ents[a].collider
        kb == w.ents[b].collider
    IN  IF IsDeferred(ka) /\ IsDeferred(kb) THEN [w |-> w, seen |-> {a, b}]
        ELSE IF IsDeferred(ka) THEN [w |-> w, seen |-> {a}]
        ELSE IF IsDeferred(kb) THEN [w |-> w, seen |-> {b}]
        ELSE IF "Ship" \in {ka, kb} /\ w.game.modifiers.player_is_immortal
        THEN [w |-> w, seen |-> {}]
        ELSE [w |-> ForColliders(w, a, b, ra, rb), seen |-> {}]

\* The handler giving a pair up when one of its entities has been deleted
\* by the handler of an earlier pair.
HandlePairGivingUp(w, a, b, ra, rb) ==
    LET ka == w.ents[a].collider
        kb == w.ents[b].collider
    IN  IF IsDeferred(ka) /\ IsDeferred(kb) THEN [w |-> w, seen |-> {a, b}]
        ELSE IF IsDeferred(ka) THEN [w |-> w, seen |-> {a}]
        ELSE IF IsDeferred(kb) THEN [w |-> w, seen |-> {b}]
        ELSE IF w.ents[a].killed \/ w.ents[b].killed THEN [w |-> w, seen |-> {}]
        ELSE [w |-> ForColliders(w, a, b, ra, rb), seen |-> {}]

\* The handler of broad_phase.update for the pair (a, b): what it does to
\* the world, and the entries it removes from `deferred`.
HandlePair(w, a, b, ra, rb) ==
    LET ka == w.ents[a].collider
        kb == w.ents[b].collider
    IN  IF IsDeferred(ka) /\ IsDeferred(kb) THEN [w |-> w, seen |-> {a, b}]
        ELSE IF IsDeferred(ka) THEN [w |-> w, seen |-> {a}]
        ELSE IF IsDeferred(kb) THEN [w |-> w, seen |-> {b}]
        ELSE [w |-> ForColliders(w, a, b, ra, rb), seen |-> {}]

\* One call of the handler, for a pair not handled yet.  The order of the
\* pairs and of the two proxies of a pair is the broad phase's.
CollisionPair ==
    /\ pc = "resolve"
    /\ \E p \in pairs \ done :
       \E a \in p :
       \E b \in p \ {a} :
       \E ra \in ClusterRands(ents, a), rb \in ClusterRands(ents, b) :
          LET h == HandlePair(World, a, b, ra, rb)
          IN  /\ ~h.w.full
              /\ h.w.score.asteroids <= MaxScore
              /\ ents' = h.w.ents
              /\ lazy' = h.w.lazy
              /\ game' = h.w.game
              /\ score' = h.w.score
              /\ spawned' = h.w.spawned
              /\ volume' = h.w.volume
              /\ deferred' = deferred \ h.seen
              /\ done' = done \cup {p}
    /\ UNCHANGED <<frame, input, pc, mode, selfImmortal, actions, dt, time_to_spawn, pairs>>

\* The loop inserting the collider the entity has, not `next`.
RECURSIVE UndeferSameKind(_, _, _)
UndeferSameKind(L, E, left) ==
    IF left = {} THEN L
    ELSE LET e == CHOOSE m \in left : \A o \in left : m <= o
         IN  UndeferSameKind(Append(L, [e |-> e, all |-> FALSE,
                                        comp |-> [NoEntity EXCEPT
                                                     !.collider = E[e].collider]]),
                             E, left \ {e})

\* "undefer deferred": lazy.insert(e, next) for every entry left.
RECURSIVE Undefer(_, _, _)
Undefer(L, E, left) ==
    IF left = {} THEN L
    ELSE LET e == CHOOSE m \in left : \A o \in left : m <= o
         IN  Undefer(Append(L, [e |-> e, all |-> FALSE,
                                comp |-> [NoEntity EXCEPT
                                             !.collider = to_collider(E[e].collider)]]),
                     E, left \ {e})

\* The end of the pass without the loop "undefer deferred".
CollisionEndsStillDeferred ==
    /\ pc = "resolve"
    /\ pairs \ done = {}
    /\ pairs' = {}
    /\ done' = {}
    /\ deferred' = {}
    /\ pc' = "handle_ui"
    /\ volume' = 0
    /\ UNCHANGED <<frame, input, mode, selfImmortal, game, score, actions, dt, ents,
                   lazy, time_to_spawn, spawned>>

\* The end of CollisionSystem::run, once every pair has been handled.
CollisionUndefer ==
    /\ pc = "resolve"
    /\ pairs \ done = {}
    /\ lazy' = Undefer(lazy, ents, deferred)
    /\ pairs' = {}
    /\ done' = {}
    /\ deferred' = {}
    /\ pc' = "handle_ui"
    /\ volume' = 0
    /\ UNCHANGED <<frame, input, mode, selfImmortal, game, score, actions, dt, ents,
                   time_to_spawn, spawned>>

\* -------------------------------------------------------------- HandleUiSystem
\* The system writing the text without keeping the modifiers it wrote.
HandleUiWithoutSnapshot ==
    /\ pc = "handle_ui"
    /\ score' = IF game.modifiers # score.current_modifiers
                THEN [score EXCEPT !.modifiers_text = as_text(game.modifiers)]
                ELSE score
    /\ pc' = "update"
    /\ UNCHANGED <<frame, input, mode, selfImmortal, game, actions, dt, ents, lazy,
                   time_to_spawn, pairs, done, deferred, spawned, volume>>

\* HandleUiSystem::run
HandleUiSystem ==
    /\ pc = "handle_ui"
    /\ score' = IF game.modifiers # score.current_modifiers
                THEN [score EXCEPT !.current_modifiers = game.modifiers,
                                   !.modifiers_text = as_text(game.modifiers)]
                ELSE score
    /\ pc' = "update"
    /\ UNCHANGED <<frame, input, mode, selfImmortal, game, actions, dt, ents, lazy,
                   time_to_spawn, pairs, done, deferred, spawned, volume>>

\* ---------------------------------------------------------------- the states
\* A restart that carries over the flag of the Game alone.
NextImmortalOfGame(self, modifiers) == modifiers.player_is_immortal

\* The player_is_immortal of the MainGameState a restart switches to.
NextImmortal(self, modifiers) == self \/ modifiers.player_is_immortal

\* MainGameState::update after the two dispatchers: a restart deletes every
\* entity and switches to a new MainGameState, whose on_start runs at once;
\* the inserts still queued are for entities that are gone.

MainGameStateUpdate ==
    /\ pc = "update"
    /\ IF game.restart
       THEN /\ selfImmortal' = NextImmortal(selfImmortal, game.modifiers)
            /\ on_start(selfImmortal')
            /\ lazy' = <<>>
            /\ UNCHANGED mode
       ELSE IF game.pause
       THEN /\ game' = [game EXCEPT !.pause = FALSE]
            /\ mode' = "Paused"
            /\ UNCHANGED <<selfImmortal, score, ents, lazy>>
       ELSE UNCHANGED <<mode, selfImmortal, game, score, ents, lazy>>
    /\ pc' = "maintain"
    /\ UNCHANGED <<frame, input, actions, dt, time_to_spawn, pairs, done, deferred, spawned, volume>>

\* PauseState::update dropping a restart requested during the pause.
PauseStateUpdateDroppingRestart ==
    /\ pc = "pause_update"
    /\ IF game.pause
       THEN game' = [game EXCEPT !.pause = FALSE, !.restart = FALSE] /\ mode' = "Main"
       ELSE UNCHANGED <<game, mode>>
    /\ pc' = "maintain"
    /\ UNCHANGED <<frame, input, selfImmortal, score, actions, dt, ents, lazy,
                   time_to_spawn, pairs, done, deferred, spawned, volume>>

\* PauseState::update after base.update.
PauseStateUpdate ==
    /\ pc = "pause_update"
    /\ IF game.pause
       THEN game' = [game EXCEPT !.pause = FALSE] /\ mode' = "Main"
       ELSE UNCHANGED <<game, mode>>
    /\ pc' = "maintain"
    /\ UNCHANGED <<frame, input, selfImmortal, score, actions, dt, ents, lazy,
                   time_to_spawn, pairs, done, deferred, spawned, volume>>

\* World::maintain at the end of the frame: the deletes, then the inserts.
Maintain ==
    /\ pc = "maintain"
    /\ ents' = ApplyLazy(Merge(ents), lazy)
    /\ lazy' = <<>>
    /\ frame' = frame + 1
    /\ pc' = "base"
    /\ UNCHANGED <<input, mode, selfImmortal, game, score, actions, dt,
                   time_to_spawn, pairs, done, deferred, spawned, volume>>

Next ==
    \/ GlobalInputSystem
    \/ KillBulletsSystem
    \/ RandomAsteroidSystem
    \/ ShipInputSystem
    \/ PhysicsSystem
    \/ LimitObjectsSystem
    \/ CollisionBuild
    \/ CollisionPair
    \/ CollisionUndefer
    \/ HandleUiSystem
    \/ MainGameStateUpdate
    \/ Maintain

Spec == Init /\ [][Next]_vars

\* A session: the keys of "restart" and "pause" are used too.
NextSession ==
    \/ SessionInputSystem
    \/ KillBulletsSystem
    \/ RandomAsteroidSystem
    \/ ShipInputSystem
    \/ PhysicsSystem
    \/ LimitObjectsSystem
    \/ CollisionBuild
    \/ CollisionPair
    \/ CollisionUndefer
    \/ HandleUiSystem
    \/ MainGameStateUpdate
    \/ PauseStateUpdate
    \/ Maintain

SpecSession == Init /\ [][NextSession]_vars

\* ------------------------------------------- spawn_asteroid_cluster on its own
\* spawn_asteroid_cluster called in the middle of an empty world, for every
\* area of 0 .. MaxArea.
SplitInit ==
    /\ pc = "split"
    /\ mode = "Main"
    /\ selfImmortal = FALSE
    /\ game = NewGame(FALSE)
    /\ score = initialize_score(game)
    /\ actions = [immortal |-> "Inactive", restart |-> "Inactive", pause |-> "Inactive"]
    /\ dt \in DTs
    /\ ents = [e \in Ids |-> Vacant(e)]
    /\ lazy = <<>>
    /\ time_to_spawn = initial_time_to_spawn
    /\ pairs = {}
    /\ done = {}
    /\ deferred = {}
    /\ spawned = 0
    /\ volume \in 0 .. MaxArea
    /\ input = NoInput
    /\ frame = 0

SplitStep ==
    /\ pc = "split"
    /\ \E rs \in [1 .. ClusterCount(volume) -> ClusterRand] :
          LET w == spawn_asteroid_cluster(World, ARENA_WIDTH \div 2, ARENA_HEIGHT \div 2,
                                          volume, rs)
          IN  /\ ~w.full
              /\ ents' = w.ents
              /\ lazy' = w.lazy
              /\ spawned' = w.spawned
    /\ pc' = "split_done"
    /\ UNCHANGED <<frame, input, mode, selfImmortal, game, score, actions, dt,
                   time_to_spawn, pairs, done, deferred, volume>>

NextSplit == SplitStep

SpecSplit == SplitInit /\ [][NextSplit]_vars

\* ----------------------------------------------------- the ship on its own
\* The ship shooting in a world with no asteroid: a tick is KillBulletsSystem,
\* ShipInputSystem and World::maintain, for a frame length that is the same
\* through a run and a shoot action the player holds or not in each tick.
ShootingDTs == {1, 2, 3, 5, 10, 30, 50}

ShootingInputs == [shoot : BOOLEAN, accelerate : {<<>>}]

ShootingInit ==
    /\ pc = "shooting"
    /\ mode = "Main"
    /\ selfImmortal = FALSE
    /\ game = NewGame(FALSE)
    /\ score = initialize_score(game)
    /\ actions = [immortal |-> "Inactive", restart |-> "Inactive", pause |-> "Inactive"]
    /\ dt \in ShootingDTs
    /\ ents = [e \in Ids |-> IF e = 1 THEN initialise_ship ELSE Vacant(e)]
    /\ lazy = <<>>
    /\ time_to_spawn = initial_time_to_spawn
    /\ pairs = {}
    /\ done = {}
    /\ deferred = {}
    /\ spawned = 0
    /\ volume = 0
    /\ input \in ShootingInputs
    /\ frame = 0

ShootingTick ==
    /\ pc = "shooting"
    /\ frame < MaxFrames
    /\ \E kj \in JitterRand :
          LET w == ShipInput([World EXCEPT !.ents = KillBullets(ents, dt)],
                             input.accelerate, input.shoot, kj, dt)
          IN  /\ ~w.full
              /\ ents' = ApplyLazy(Merge(w.ents), w.lazy)
    /\ input' \in ShootingInputs
    /\ frame' = frame + 1
    /\ UNCHANGED <<pc, mode, selfImmortal, game, score, actions, dt, lazy,
                   time_to_spawn, pairs, done, deferred, spawned, volume>>

NextShooting == ShootingTick

SpecShooting == ShootingInit /\ [][NextShooting]_vars

\* ------------------------------------------------- one entity and the edges
\* A constrained entity anywhere in the arena, moved along one axis by
\* PhysicsSystem for one second and wrapped by LimitObjectsSystem: the
\* displacement is the velocity, any whole number below the arena dimension.
WrapInit ==
    /\ pc = "physics_system"
    /\ mode = "Main"
    /\ selfImmortal = FALSE
    /\ game = NewGame(FALSE)
    /\ score = initialize_score(game)
    /\ actions = [immortal |-> "Inactive", restart |-> "Inactive", pause |-> "Inactive"]
    /\ dt = Second
    /\ \/ \E p \in 0 .. ARENA_WIDTH, d \in (1 - ARENA_WIDTH) .. (ARENA_WIDTH - 1) :
             ents = [e \in Ids |-> IF e = 1
                                   THEN [initialise_ship EXCEPT !.x = p, !.vx = d]
                                   ELSE Vacant(e)]
       \/ \E p \in 0 .. ARENA_HEIGHT, d \in (1 - ARENA_HEIGHT) .. (ARENA_HEIGHT - 1) :
             ents = [e \in Ids |-> IF e = 1
                                   THEN [initialise_ship EXCEPT !.y = p, !.vy = d]
                                   ELSE Vacant(e)]
    /\ lazy = <<>>
    /\ time_to_spawn = initial_time_to_spawn
    /\ pairs = {}
    /\ done = {}
    /\ deferred = {}
    /\ spawned = 0
    /\ volume = 0
    /\ input = NoInput
    /\ frame = 0

NextWrap == PhysicsSystem \/ LimitObjectsSystem

SpecWrap == WrapInit /\ [][NextWrap]_vars

\* ------------------------------------------------------ the ship under thrust
\* The acceleration of ShipInputSystem on a ship whose velocity is held in
\* f32: the ship starts with a velocity of whole units inside the disc of
\* max_velocity and is given an accelerate axis value, or none, in each of
\* a few ticks of one frame length.
MaxThrusts == 3

AccelGrid == {20 * k : k \in (0 - 5) .. 5}

AccelDTs == {2, 10, 50}

AccelInputs == [shoot : {FALSE}, accelerate : {<<>>, <<1>>, <<0 - 1>>}]

AccelInit ==
    /\ pc = "accelerating"
    /\ mode = "Main"
    /\ selfImmortal = FALSE
    /\ game = NewGame(FALSE)
    /\ score = initialize_score(game)
    /\ actions = [immortal |-> "Inactive", restart |-> "Inactive", pause |-> "Inactive"]
    /\ dt \in AccelDTs
    /\ \E x \in AccelGrid, y \in AccelGrid :
          /\ x * x + y * y <= max_velocity * max_velocity
          /\ ents = [e \in Ids |-> IF e = 1
                                   THEN [initialise_ship EXCEPT !.vx = F32(x), !.vy = F32(y)]
                                   ELSE Vacant(e)]
    /\ lazy = <<>>
    /\ time_to_spawn = initial_time_to_spawn
    /\ pairs = {}
    /\ done = {}
    /\ deferred = {}
    /\ spawned = 0
    /\ volume = 0
    /\ input \in AccelInputs
    /\ frame = 0

AccelTick ==
    /\ pc = "accelerating"
    /\ frame < MaxThrusts
    /\ ents' = [ents EXCEPT ![1] = F32Accelerate(@, input.accelerate, dt)]
    /\ input' \in AccelInputs
    /\ frame' = frame + 1
    /\ UNCHANGED <<pc, mode, selfImmortal, game, score, actions, dt, lazy,
                   time_to_spawn, pairs, done, deferred, spawned, volume>>

NextAccel == AccelTick

SpecAccel == AccelInit /\ [][NextAccel]_vars

\* ------------------------------------------------- the broad phase on its own
\* CollisionSystem::run on the ship in the middle of the arena and an
\* asteroid placed around it, before anything has moved.
BroadRadii == {MIN_RADIUS, ShipRadius, 2 * MIN_RADIUS}

BroadInit ==
    /\ pc = "collisions"
    /\ mode = "Main"
    /\ selfImmortal = FALSE
    /\ game = NewGame(FALSE)
    /\ score = initialize_score(game)
    /\ actions = [immortal |-> "Inactive", restart |-> "Inactive", pause |-> "Inactive"]
    /\ dt \in DTs
    /\ \E dx \in (0 - MaxOffset) .. MaxOffset, dy \in (0 - MaxOffset) .. MaxOffset,
          r \in BroadRadii :
          ents = [e \in Ids |->
                    IF e = 1 THEN initialise_ship
                    ELSE IF e = 2
                    THEN [NoEntity EXCEPT !.st = "live", !.collider = "Asteroid",
                                          !.x = initialise_ship.x + dx,
                                          !.y = initialise_ship.y + dy,
                                          !.radius = r]
                    ELSE Vacant(e)]
    /\ lazy = <<>>
    /\ time_to_spawn = initial_time_to_spawn
    /\ pairs = {}
    /\ done = {}
    /\ deferred = {}
    /\ spawned = 0
    /\ volume = 0
    /\ input = NoInput
    /\ frame = 0

NextBroad == CollisionBuild \/ CollisionPair

SpecBroad == BroadInit /\ [][NextBroad]_vars

\* ------------------------------------------------ the collision pass on its own
\* The radii an asteroid can have: MIN_RADIUS times a scale of 1 + k / RandDen
\* (RandomAsteroidSystem draws the scale from [1, 2)), and twice MIN_RADIUS,
\* the limit of that range.
ResolveRadii == {new_bounded(RandDen + k) : k \in 0 .. RandDen}

\* A bullet in flight.
FlyingBullet(kind, x, y) ==
    [NoEntity EXCEPT !.st = "live", !.collider = kind, !.x = x, !.y = y,
                     !.vy = bullet_velocity, !.radius = BulletRadius,
                     !.time_to_live = Second]

\* A frame reaches CollisionSystem after the player has died: the ship is
\* gone, an asteroid is in the middle of the arena and two bullets fired
\* before are still in flight on the line through the asteroid, one to its
\* left and one to its right or both at its centre, the second one
\* possibly fired a frame ago and still deferred.
ResolveInit ==
    /\ pc = "collisions"
    /\ mode = "Main"
    /\ selfImmortal = FALSE
    /\ game = [NewGame(FALSE) EXCEPT !.modifiers.player_is_dead = TRUE]
    /\ score = initialize_score(game)
    /\ actions = [immortal |-> "Inactive", restart |-> "Inactive", pause |-> "Inactive"]
    /\ dt \in DTs
    /\ \E r \in ResolveRadii, kind \in {"Bullet", "Deferred(Bullet)"},
          d1 \in 0 .. MaxOffset, d2 \in 0 .. MaxOffset :
          ents = [e \in Ids |->
                    IF e = 1
                    THEN [NoEntity EXCEPT !.st = "live", !.collider = "Asteroid",
                                          !.x = ARENA_WIDTH \div 2,
                                          !.y = ARENA_HEIGHT \div 2,
                                          !.radius = r]
                    ELSE IF e = 2
                    THEN FlyingBullet("Bullet", ARENA_WIDTH \div 2 - d1, ARENA_HEIGHT \div 2)
                    ELSE IF e = 3
                    THEN FlyingBullet(kind, ARENA_WIDTH \div 2 + d2, ARENA_HEIGHT \div 2)
                    ELSE NoEntity]
    /\ lazy = <<>>
    /\ time_to_spawn = initial_time_to_spawn
    /\ pairs = {}
    /\ done = {}
    /\ deferred = {}
    /\ spawned = 0
    /\ volume = 0
    /\ input = NoInput
    /\ frame = 0

\* CollisionSystem and what follows it in the frame.
NextResolve ==
    \/ CollisionBuild
    \/ CollisionPair
    \/ CollisionUndefer
    \/ HandleUiSystem
    \/ MainGameStateUpdate
    \/ Maintain

SpecResolve == ResolveInit /\ [][NextResolve]_vars

\* ------------------------------------------ the frames that follow a split
\* Frame lengths of 0.1 s and 0.5 s: a child of a split that moves at 50
\* units / s is 5 or 25 units further in a frame.
GraceDTs == {Second \div 10, Second \div 2}

\* The radii of the spawner's asteroids that split: 6 (one child) and 7 (two).
GraceRadii == {r \in ResolveRadii : r < 2 * MIN_RADIUS /\ ClusterCount(r * r) > 0}

\* A frame reaches CollisionSystem after the player has died, with an
\* asteroid in the middle of the arena and one bullet on the line through it.
GraceInit ==
    /\ pc = "collisions"
    /\ mode = "Main"
    /\ selfImmortal = FALSE
    /\ game = [NewGame(FALSE) EXCEPT !.modifiers.player_is_dead = TRUE]
    /\ score = initialize_score(game)
    /\ actions = [immortal |-> "Inactive", restart |-> "Inactive", pause |-> "Inactive"]
    /\ dt \in GraceDTs
    /\ \E r \in GraceRadii, d \in 0 .. MaxOffset :
          ents = [e \in Ids |->
                    IF e = 1
                    THEN [NoEntity EXCEPT !.st = "live", !.collider = "Asteroid",
                                          !.x = ARENA_WIDTH \div 2,
                                          !.y = ARENA_HEIGHT \div 2,
                                          !.radius = r]
                    ELSE IF e = 2
                    THEN FlyingBullet("Bullet", ARENA_WIDTH \div 2 - d, ARENA_HEIGHT \div 2)
                    ELSE Vacant(e)]
    /\ lazy = <<>>
    /\ time_to_spawn = initial_time_to_spawn
    /\ pairs = {}
    /\ done = {}
    /\ deferred = {}
    /\ spawned = 0
    /\ volume = 0
    /\ input = NoInput
    /\ frame = 0

\* The base dispatcher in a frame in which no key is down: GlobalInputSystem
\* changes nothing; the frame has one of the lengths of GraceDTs.
GraceInputSystem ==
    /\ pc = "base"
    /\ frame < MaxFrames
    /\ dt' \in GraceDTs
    /\ pc' = "kill_bullets"
    /\ UNCHANGED <<frame, input, mode, selfImmortal, game, score, actions, ents, lazy,
                   time_to_spawn, pairs, done, deferred, spawned, volume>>

NextGrace ==
    \/ GraceInputSystem
    \/ KillBulletsSystem
    \/ RandomAsteroidSystem
    \/ ShipInputSystem
    \/ PhysicsSystem
    \/ LimitObjectsSystem
    \/ CollisionBuild
    \/ CollisionPair
    \/ CollisionUndefer
    \/ HandleUiSystem
    \/ MainGameStateUpdate
    \/ Maintain

SpecGrace == GraceInit /\ [][NextGrace]_vars

\* ------------------------------------------------------ every kind of body
\* The game with a ship that thrusts and shoots and a spawner whose two draws
\* for the velocity take the ends and the middle of their range: no key of
\* the global actions is pressed.
SpeedRand == {<<2, 2, k3, k4, 2>> : k3 \in {0, 2}, k4 \in {0, 3}}

SpeedAxis == {<<>>, <<1>>}

SpeedInputSystem == GlobalInput({}, MaxSpeedFrames)

SpeedAsteroidSystem ==
    /\ pc = "random_asteroids"
    /\ IF time_to_spawn - dt <= 0
       THEN \E k \in SpeedRand :
                 LET w == spawn_asteroid(World,
                              (k[1] * ARENA_HEIGHT) \div RandDen, ARENA_WIDTH,
                              RandDen + k[2],
                              RandVelocity(k[3]), RandVelocity(k[4]), FALSE)
                 IN  /\ ~w.full
                     /\ ents' = w.ents
                     /\ lazy' = w.lazy
                     /\ time_to_spawn' = (k[5] * average_spawn_time) \div RandDen
       ELSE /\ time_to_spawn' = time_to_spawn - dt
            /\ UNCHANGED <<ents, lazy>>
    /\ pc' = "ship_input_system"
    /\ UNCHANGED <<frame, input, mode, selfImmortal, game, score, actions, dt,
                   pairs, done, deferred, spawned, volume>>

SpeedShipInputSystem ==
    /\ pc = "ship_input_system"
    /\ \E accelerate \in SpeedAxis, shoot \in BOOLEAN, kj \in JitterRand :
          LET w == ShipInput(World, accelerate, shoot, kj, dt)
          IN  ~w.full /\ ents' = w.ents /\ lazy' = w.lazy
    /\ pc' = "physics_system"
    /\ UNCHANGED <<frame, input, mode, selfImmortal, game, score, actions, dt,
                   time_to_spawn, pairs, done, deferred, spawned, volume>>

NextSpeed ==
    \/ SpeedInputSystem
    \/ KillBulletsSystem
    \/ SpeedAsteroidSystem
    \/ SpeedShipInputSystem
    \/ PhysicsSystem
    \/ LimitObjectsSystem
    \/ CollisionBuild
    \/ CollisionPair
    \/ CollisionUndefer
    \/ HandleUiSystem
    \/ MainGameStateUpdate
    \/ Maintain

SpecSpeed == Init /\ [][NextSpeed]_vars

\* ============================================================== properties
Immortal == game.modifiers.player_is_immortal
Dead == game.modifiers.player_is_dead

\* The step is the call of the handler for the pair p.
Handles(p) == pc = "resolve" /\ p \in pairs \ done /\ p \in done'

Kinds(p) == {ents[e].collider : e \in p}

\* The area (over pi) of entity e.
Area(e) == ents[e].radius * ents[e].radius

\* The inserts the step adds to the queue.
NewInserts == {i \in DOMAIN lazy' : i > Len(lazy)}

\* Insert i of the queue after the step creates an asteroid of scale 1,
\* deferred, at (x, y).
IsChildAt(i, x, y) ==
    /\ lazy'[i].all
    /\ lazy'[i].comp.collider = "Deferred(Asteroid)"
    /\ lazy'[i].comp.radius = MIN_RADIUS
    /\ lazy'[i].comp.x = x
    /\ lazy'[i].comp.y = y

\* C1: while player_is_immortal is set, no step of the collision pass changes
\* player_is_dead, whatever the pair it handles.
C1_ImmortalNeverDead ==
    [][(pc = "resolve" /\ Immortal) => (Dead' = Dead)]_vars

\* C1: the pass has handled a pair of the ship and an asteroid while the
\* player is immortal, and the player is not dead.
C1_Witness ==
    /\ pc = "resolve"
    /\ Immortal
    /\ ~Dead
    /\ \E p \in done : Kinds(p) = {"Ship", "Asteroid"}

BulletKinds == {"Bullet", "Deferred(Bullet)"}

\* C2, as stated: the handler of a pair of a bullet (deferred or not) and the
\* ship leaves player_is_dead alone and deletes neither of the two.
C2_BulletShipIgnored ==
    [][\A p \in pairs : \A s \in p, b \in p :
          (Handles(p) /\ ents[s].collider = "Ship" /\ ents[b].collider \in BulletKinds)
          => /\ Dead' = Dead
             /\ ents'[s].killed = ents[s].killed
             /\ ents'[b].killed = ents[b].killed]_vars

\* C2, amended: the handler of a pair of a bullet and the ship does nothing
\* while the bullet is deferred; for a bullet that is no longer deferred it
\* deletes the bullet and, unless the player is immortal, sets player_is_dead
\* and deletes the ship.
C2_GraduatedBulletHitsShip ==
    [][\A p \in pairs : \A s \in p, b \in p :
          (Handles(p) /\ ents[s].collider = "Ship" /\ ents[b].collider \in BulletKinds)
          => IF ents[b].collider = "Deferred(Bullet)"
             THEN UNCHANGED <<ents, lazy, game, score>>
             ELSE /\ ents'[b].killed
                  /\ IF Immortal
                     THEN ents'[s] = ents[s] /\ Dead' = Dead
                     ELSE ents'[s].killed /\ Dead']_vars

\* C2: the only pair of the pass is the ship and a bullet that is no longer
\* deferred; it has been handled, the player is dead and the ship deleted.
C2_Witness ==
    /\ pc = "resolve"
    /\ Dead
    /\ \E p \in done : \E s \in p, b \in p :
          /\ pairs = {p}
          /\ ents[s].collider = "Ship"
          /\ ents[s].killed
          /\ ents[b].collider = "Bullet"

\* C3: the handler of a pair with at least one deferred collider deletes no
\* entity, leaves the score and player_is_dead alone and spawns no asteroid.
C3_DeferredPairHarmless ==
    [][\A p \in pairs :
          (Handles(p) /\ \E e \in p : IsDeferred(ents[e].collider))
          => UNCHANGED <<ents, lazy, game, score, spawned>>]_vars

\* C3: a pair of two deferred asteroids has been handled and both are alive.
C3_Witness ==
    /\ pc = "resolve"
    /\ \E p \in done :
          \A e \in p : ents[e].collider = "Deferred(Asteroid)" /\ ~ents[e].killed

\* Entity e holds components before and after the step.
Survives(e) == ents[e].st = "live" /\ ents'[e].st = "live"

\* The queue holds an insert of a collider for entity e.
HasUndefer(e) == \E i \in DOMAIN lazy : lazy[i].e = e /\ ~lazy[i].all

\* C4, as stated: an entity that is deferred during a tick and survives the
\* end of the tick is not deferred afterwards, so that no entity is deferred
\* for more than the tick after its creation.
C4_DeferredForOneTick ==
    [][\A e \in Ids :
          (pc = "maintain" /\ Survives(e) /\ IsDeferred(ents[e].collider))
          => ~IsDeferred(ents'[e].collider)]_vars

\* C4, amended: the collider of an entity changes in one way only, from
\* Deferred(K) to K, at the end of a tick whose collision pass queued the
\* insert for it; so it changes at most once, and an entity for which no
\* insert is queued stays deferred for another tick.
C4_KindChangesOnceAtMaintain ==
    [][\A e \in Ids :
          Survives(e)
          => ents'[e].collider =
                IF pc = "maintain" /\ IsDeferred(ents[e].collider) /\ HasUndefer(e)
                THEN to_collider(ents[e].collider)
                ELSE ents[e].collider]_vars

\* C4: at the end of a tick two deferred entities are alive, one with the
\* insert of its collider queued and one without.
C4_Witness ==
    /\ pc = "maintain"
    /\ \E e \in Ids, f \in Ids :
          /\ ents[e].st = "live" /\ IsDeferred(ents[e].collider) /\ ~ents[e].killed
          /\ ents[f].st = "live" /\ IsDeferred(ents[f].collider) /\ ~ents[f].killed
          /\ HasUndefer(e)
          /\ ~HasUndefer(f)

\* The entities with a deferred collider the pass has a proxy for.
DeferredEntities == {e \in Joined(ents) : IsDeferred(ents[e].collider)}

InPair(e) == \E p \in pairs : e \in p

InDeferredPair(e) ==
    \E p \in pairs : e \in p /\ \A o \in p : IsDeferred(ents[o].collider)

\* The step is the end of CollisionSystem::run.
PassEnds == pc = "resolve" /\ pc' = "handle_ui"

\* The step queues the insert of the collider entity e turns into.
Graduates(e) ==
    \E i \in NewInserts :
        /\ lazy'[i].e = e
        /\ ~lazy'[i].all
        /\ lazy'[i].comp.collider = to_collider(ents[e].collider)

\* C5, as stated: at the end of the pass a deferred entity is given its
\* other collider exactly when it was in no pair of two deferred entities.
C5_GraduatesUnlessSiblingPair ==
    [][PassEnds => \A e \in DeferredEntities : Graduates(e) <=> ~InDeferredPair(e)]_vars

\* C5, amended: at the end of the pass a deferred entity is given its other
\* collider exactly when it was in no intersecting pair at all.
C5_GraduatesIffUntouched ==
    [][PassEnds => \A e \in DeferredEntities : Graduates(e) <=> ~InPair(e)]_vars

\* C5: every pair has been handled, and a deferred entity that met entities
\* that are not deferred, and no deferred one, is no longer in `deferred`.
C5_Witness ==
    /\ pc = "resolve"
    /\ pairs \ done = {}
    /\ \E e \in DeferredEntities :
          InPair(e) /\ ~InDeferredPair(e) /\ e \notin deferred

CeilDiv(a, b) == (a + b - 1) \div b

\* C6, as stated: spawn_asteroid_cluster spawns exactly two deferred
\* asteroids, of a total area of at most A, for an area A >= 3 * min_area,
\* and none for a smaller one.
C6_TwoChildrenOrNone ==
    pc = "split_done"
    => IF volume >= 3 * min_area
       THEN /\ spawned = 2
            /\ Len(lazy) = 2
            /\ \A i \in DOMAIN lazy : lazy[i].comp.collider = "Deferred(Asteroid)"
            /\ 2 * min_area <= volume
       ELSE spawned = 0 /\ lazy = <<>>

\* C6, amended: for an area A spawn_asteroid_cluster spawns no asteroid when
\* A <= 2 * min_area and ceil(A / min_area) - 2 of them otherwise (one for
\* 2 < A / min_area <= 3, two for 3 < A / min_area <= 4), each deferred and of
\* area min_area, so that their total area is less than A - min_area.
C6_SplitCount ==
    pc = "split_done"
    => /\ spawned = (IF volume > 2 * min_area THEN CeilDiv(volume, min_area) - 2 ELSE 0)
       /\ Len(lazy) = spawned
       /\ \A i \in DOMAIN lazy :
             /\ lazy[i].comp.collider = "Deferred(Asteroid)"
             /\ lazy[i].comp.radius * lazy[i].comp.radius = min_area
       /\ spawned > 0 => spawned * min_area < volume - min_area

\* C6: an area between two and three times min_area gave one asteroid.
C6_Witness ==
    /\ pc = "split_done"
    /\ volume > 2 * min_area
    /\ volume < 3 * min_area
    /\ spawned = 1
    /\ Len(lazy) = 1

\* C7, as stated: the handler of a pair of two asteroids deletes both and
\* runs one split, on the sum of the two areas at the midpoint of the two
\* positions.
C7_MergeThenSplit ==
    [][\A p \in pairs : \A a \in p, b \in p :
          (Handles(p) /\ a # b
             /\ ents[a].collider = "Asteroid" /\ ents[b].collider = "Asteroid")
          => /\ ents'[a].killed
             /\ ents'[b].killed
             /\ spawned' - spawned = ClusterCount(Area(a) + Area(b))
             /\ Len(lazy') - Len(lazy) = ClusterCount(Area(a) + Area(b))
             /\ \A i \in NewInserts :
                   IsChildAt(i, (ents[a].x + ents[b].x) \div 2,
                                (ents[a].y + ents[b].y) \div 2)]_vars

\* A ship that is alive: it holds its components and is not deleted.
ShipAlive ==
    \E e \in Ids : ents[e].st = "live" /\ ents[e].collider = "Ship" /\ ~ents[e].killed

\* C8, as stated: the ship is alive in every reachable state.
C8_ShipNeverDeleted == ShipAlive

\* C8, amended: the contact that sets player_is_dead deletes the ship as
\* well: the ship is alive exactly as long as player_is_dead is false.
C8_ShipDeletedWithDeath == ShipAlive <=> ~Dead

\* C8: the player is dead and no entity is a ship any more.
C8_Witness ==
    /\ Dead
    /\ \A e \in Ids : ents[e].collider # "Ship"

\* C9, as stated: while the player is immortal the handler of a pair with
\* the ship deletes neither entity and spawns nothing.
C9_ImmortalContactIgnored ==
    [][\A p \in pairs :
          (Handles(p) /\ Immortal /\ "Ship" \in Kinds(p))
          => /\ \A e \in p : ents'[e].killed = ents[e].killed
             /\ spawned' = spawned
             /\ lazy' = lazy]_vars

\* C9, amended: while the player is immortal the handler of a pair of the
\* ship and an entity X that is not deferred spares the ship only: the ship
\* and player_is_dead are unchanged, X is deleted, and an asteroid X is split
\* on its own area at its own position.
C9_OnlyShipSpared ==
    [][\A p \in pairs : \A s \in p, x \in p :
          (Handles(p) /\ Immortal /\ ents[s].collider = "Ship" /\ x # s
             /\ ~IsDeferred(ents[x].collider))
          => /\ ents'[s] = ents[s]
             /\ Dead' = Dead
             /\ ents'[x].killed
             /\ spawned' - spawned =
                   (IF ents[x].collider = "Asteroid" THEN ClusterCount(Area(x)) ELSE 0)
             /\ Len(lazy') - Len(lazy) = spawned' - spawned
             /\ \A i \in NewInserts : IsChildAt(i, ents[x].x, ents[x].y)]_vars

\* C9: the only pair of the pass, the ship of an immortal player and an
\* asteroid, has been handled: the ship is not deleted, the asteroid is, and
\* an asteroid has been spawned.
C9_Witness ==
    /\ pc = "resolve"
    /\ Immortal
    /\ spawned >= 1
    /\ \E p \in done : \E s \in p, x \in p :
          /\ pairs = {p}
          /\ ents[s].collider = "Ship" /\ ~ents[s].killed
          /\ ents[x].collider = "Asteroid" /\ ents[x].killed

\* C10: the handler of a pair of a bullet and an asteroid, neither deferred,
\* adds one to the score and writes it to the text, deletes both, and splits
\* the asteroid on its own area at its own position.
C10_BulletDestroysAsteroid ==
    [][\A p \in pairs : \A b \in p, a \in p :
          (Handles(p) /\ ents[b].collider = "Bullet" /\ ents[a].collider = "Asteroid")
          => /\ score'.asteroids = score.asteroids + 1
             /\ score'.score_text = to_string(score.asteroids + 1)
             /\ ents'[b].killed
             /\ ents'[a].killed
             /\ spawned' - spawned = ClusterCount(Area(a))
             /\ Len(lazy') - Len(lazy) = ClusterCount(Area(a))
             /\ \A i \in NewInserts : IsChildAt(i, ents[a].x, ents[a].y)]_vars

\* C10: the only pair of the pass, a bullet and an asteroid, has been
\* handled: the score is 1, both are deleted and an asteroid has been spawned.
C10_Witness ==
    /\ pc = "resolve"
    /\ score.asteroids = 1
    /\ score.score_text = <<1>>
    /\ spawned >= 1
    /\ \E p \in done : \E b \in p, a \in p :
          /\ pairs = {p}
          /\ ents[b].collider = "Bullet" /\ ents[b].killed
          /\ ents[a].collider = "Asteroid" /\ ents[a].killed

\* The reload timer of the ship.
ReloadTimer == ents[1].reload_timer

\* The bullets that hold their components.
Bullets == {e \in Ids : ents[e].st = "live" /\ IsBullet(ents[e])}

\* The bullets the last tick spawned: no tick has counted their life down.
FreshBullets == {e \in Bullets : ents[e].time_to_live = time_to_live}

\* C11: the reload timer is between 0 and time_to_reload before and after
\* every tick; a tick spawns a bullet exactly when shoot is asserted and the
\* timer is 0 at its start, and then leaves the timer at time_to_reload.
C11_ReloadClamp ==
    [][pc = "shooting"
       => /\ ReloadTimer \in 0 .. time_to_reload
          /\ ReloadTimer' \in 0 .. time_to_reload
          /\ (FreshBullets' # {}) <=> (input.shoot /\ ReloadTimer = 0)
          /\ (FreshBullets' # {}) => (ReloadTimer' = time_to_reload)]_vars

\* C11: a tick has spawned a bullet and the timer is at time_to_reload.
C11_Witness ==
    /\ pc = "shooting"
    /\ frame >= 1
    /\ FreshBullets # {}
    /\ ReloadTimer = time_to_reload

\* The number of ticks of length d that count the reload timer down to 0.
CountdownTicks(d) == (time_to_reload + d - 1) \div d

\* Any two bullets were shot at least the countdown and one more tick apart.
ShotsApart ==
    \A b \in Bullets, c \in Bullets :
        (b # c /\ ents[b].time_to_live >= ents[c].time_to_live)
        => ents[b].time_to_live - ents[c].time_to_live >= CountdownTicks(dt) * dt + dt

\* C12, as stated: with shoot asserted, the tick in which the countdown of
\* the reload timer reaches zero spawns a bullet.
C12_FiresWhenCountdownEnds ==
    [][(pc = "shooting" /\ input.shoot /\ ReloadTimer > 0 /\ ReloadTimer' = 0)
       => FreshBullets' # {}]_vars

\* C12, amended: a tick that starts with the timer above zero only counts it
\* down and spawns no bullet, also when it brings the timer to zero; the
\* bullet is spawned in the next tick with shoot asserted.  Two shots are at
\* least the countdown and one more tick apart: time_to_reload + dt for a dt
\* that divides time_to_reload.
C12_FiresOneTickLater ==
    [][pc = "shooting"
       => /\ ReloadTimer > 0
             => /\ FreshBullets' = {}
                /\ ReloadTimer' = (IF ReloadTimer - dt < 0 THEN 0 ELSE ReloadTimer - dt)
          /\ ShotsApart'
          /\ (input.shoot /\ ReloadTimer = 0) => FreshBullets' # {}]_vars

\* C12: for a dt below time_to_reload that divides it, two bullets were
\* shot exactly time_to_reload + dt apart.
C12_Witness ==
    /\ pc = "shooting"
    /\ dt < time_to_reload
    /\ time_to_reload % dt = 0
    /\ \E b \in Bullets, c \in Bullets :
          ents[b].time_to_live - ents[c].time_to_live = time_to_reload + dt

\* C13: a tick takes dt from the time to live of every bullet; the bullet is
\* deleted by the tick that brings it to zero or below, that is when the dt
\* of the ticks since its creation add up to time_to_live, and by no earlier
\* tick: a bullet that is alive has a time to live above zero.
C13_BulletTimeToLive ==
    [][pc = "shooting"
       => \A e \in Bullets :
             /\ ents[e].time_to_live > 0
             /\ IF ents[e].time_to_live - dt <= 0
                THEN ents'[e].st = "free"
                ELSE ents'[e] = [ents[e] EXCEPT !.time_to_live = @ - dt]]_vars

\* C13: with dt = 0.5 s a bullet is alive after its third tick, with a
\* quarter of its 2 s left, in a run in which an earlier bullet is gone.
C13_Witness ==
    /\ pc = "shooting"
    /\ dt = Second \div 2
    /\ frame >= 6
    /\ \E e \in Bullets : ents[e].time_to_live = time_to_live - 3 * dt
    /\ Cardinality(Bullets) = 1

C15_WrapIdempotent ==
    [][pc = "limit_objects"
       => \A e \in Joined(ents) :
             /\ ents'[e].x - ents[e].x \in {0 - ARENA_WIDTH, 0, ARENA_WIDTH}
             /\ ents'[e].y - ents[e].y \in {0 - ARENA_HEIGHT, 0, ARENA_HEIGHT}
             /\ Wrap(ents'[e].x, ARENA_WIDTH) = ents'[e].x
             /\ Wrap(ents'[e].y, ARENA_HEIGHT) = ents'[e].y]_vars

\* C15: an entity that left the arena below zero has been wrapped to the
\* other side.
C15_Witness ==
    /\ pc = "collisions"
    /\ \E e \in Joined(ents) : ents[e].y > ARENA_HEIGHT \div 2 /\ ents[e].vy < 0 - ARENA_HEIGHT \div 2

\* The ship's speed as the code measures it, an f32.
Speed == F32Magnitude(ents[1].vx, ents[1].vy)

\* C16: after ShipInputSystem has applied an acceleration input in a tick,
\* the speed of the ship is at most max_velocity.
C16_SpeedAtMostMax ==
    [][(pc = "accelerating" /\ input.accelerate # <<>>)
       => Speed' <= F32(max_velocity)]_vars

\* The state a session starts from: the ship alone, at rest in the middle of
\* the arena with its reload timer at zero, nothing on its way into the
\* world, no point scored, the player alive and no restart asked for.
FreshSession ==
    /\ \E s \in Ids : /\ ents[s] = initialise_ship
                      /\ \A e \in Ids \ {s} : ents[e] = Vacant(e)
    /\ initialise_ship.x = ARENA_WIDTH \div 2 /\ initialise_ship.y = ARENA_HEIGHT \div 2
    /\ initialise_ship.vx = 0 /\ initialise_ship.vy = 0
    /\ initialise_ship.reload_timer = 0
    /\ lazy = <<>>
    /\ score.asteroids = 0
    /\ score.score_text = to_string(0)
    /\ ~game.modifiers.player_is_dead
    /\ ~game.restart

\* C17: the main-state update that ends with the restart flag set leaves
\* the state a session starts from, whatever the old session held, and the
\* maintain that follows it changes nothing of that.
C17_RestartIsFresh ==
    [][/\ (pc = "update" /\ game.restart) => FreshSession'
       /\ (pc = "maintain" /\ FreshSession) => FreshSession']_vars

\* C17: a restart has emptied a world in which an asteroid had been spawned.
C17_Witness ==
    /\ pc = "maintain"
    /\ FreshSession
    /\ time_to_spawn = 0
    /\ frame >= 4

\* C18, as stated: after a restart the new Game has player_is_immortal set
\* only if the flag was set in the Game at the moment of the restart.
C18_ImmortalOnlyIfSet ==
    [][(pc = "update" /\ game.restart)
       => (game'.modifiers.player_is_immortal => game.modifiers.player_is_immortal)]_vars

\* C18, amended: after a restart the new Game has player_is_immortal set if
\* and only if the flag was set in the Game at the moment of the restart or
\* the MainGameState that is left was started with it; the state that is
\* entered is started with that value, so the flag once carried over comes
\* back at every later restart, also after the player has switched it off.
C18_ImmortalSticky ==
    [][(pc = "update" /\ game.restart)
       => /\ game'.modifiers.player_is_immortal
             = (selfImmortal \/ game.modifiers.player_is_immortal)
          /\ selfImmortal' = game'.modifiers.player_is_immortal
          /\ score'.current_modifiers = game'.modifiers]_vars

\* C18: a restart is due in a session that was started immortal, after the
\* player has switched immortality off.
C18_Witness ==
    /\ pc = "update"
    /\ mode = "Main"
    /\ game.restart
    /\ selfImmortal
    /\ ~game.modifiers.player_is_immortal

\* The top-level update of the state on top of the stack acts on the flags.
ActsOnFlags == pc \in {"update", "pause_update"}

\* C19, as stated: the update that finds the pause flag set resets it and
\* makes one transition between the main state and the paused state.
C19_EveryPressTransitions ==
    [][(ActsOnFlags /\ game.pause) => (~game'.pause /\ mode' # mode)]_vars

\* C19, amended: the pause flag is set by GlobalInputSystem in the frame in
\* which the key goes from up to down and in no other, and it is false again
\* when the top-level update of that frame has run.  That update makes one
\* transition between the main and the paused state, unless it is the update
\* of the main state and the restart flag is set too: then the game restarts
\* with the pause flag false and the press causes no transition.  No other
\* step changes the state, so a key held down over any number of frames
\* causes nothing after its first frame.
C19_PauseOneShot ==
    [][/\ pc = "base"
          => /\ ~game.pause
             /\ game'.pause = (actions.pause = "Inactive" /\ actions'.pause = "Active")
             /\ mode' = mode
       /\ ActsOnFlags
          => /\ ~game'.pause
             /\ (mode' # mode) = (game.pause /\ ~(pc = "update" /\ game.restart))
             /\ (mode' # mode) => {mode, mode'} = {"Main", "Paused"}
       /\ (pc # "base" /\ ~ActsOnFlags)
          => (mode' = mode /\ game'.pause = game.pause)]_vars

\* C19: the game is paused and the pause key is still held down in the
\* update of a later frame: no flag is set and the game stays paused.
C19_Witness ==
    /\ pc = "pause_update"
    /\ mode = "Paused"
    /\ actions.pause = "Active"
    /\ ~game.pause

\* The bounding circles of two entities overlap or touch.
CirclesOverlap(a, b) ==
    (ents[a].x - ents[b].x) * (ents[a].x - ents[b].x)
        + (ents[a].y - ents[b].y) * (ents[a].y - ents[b].y)
    <= (ents[a].radius + ents[b].radius) * (ents[a].radius + ents[b].radius)

\* C20: the pairs handed to the collision handler are the pairs of distinct
\* entities whose bounding circles overlap, and the player does not die of
\* an asteroid whose circle does not overlap that of the ship.
C20_BroadPhaseExact ==
    pc = "resolve"
    => /\ \A a \in Joined(ents), b \in Joined(ents) :
             a # b => (({a, b} \in pairs) <=> CirclesOverlap(a, b))
       /\ Dead => \E a \in Joined(ents), b \in Joined(ents) : a # b /\ CirclesOverlap(a, b)

\* C21: in every state of a session, hence at the end of every tick, the text
\* of the score is the decimal form of the counter of the score: "0" when a
\* session starts, and written in the tick that counts a point.
C21_ScoreTextInSync ==
    /\ score.score_text = to_string(score.asteroids)
    /\ score.asteroids = 0 => score.score_text = <<0>>

\* C21: a tick that counted a point ends, with the text showing the point.
C21_Witness ==
    /\ pc = "maintain"
    /\ score.asteroids >= 1
    /\ score.score_text = to_string(score.asteroids)
    /\ score.score_text # <<0>>

\* The modifiers differ from the ones HandleUiSystem wrote last.
ModifiersStale == game.modifiers # score.current_modifiers

\* C22: HandleUiSystem writes the text of the modifiers only if the modifiers
\* of the Game differ from the snapshot, and then writes their words; after
\* it has run the snapshot is the modifiers of the Game.  No other step of a
\* tick touches the text or the snapshot (a restart makes new ones), so the
\* text is written at most once in a tick, and not at all while the flags
\* are as they were at the last sync.
C22_ModifierTextSync ==
    [][/\ pc = "handle_ui"
          => /\ ~ModifiersStale => score' = score
             /\ ModifiersStale => score'.modifiers_text = as_text(game.modifiers)
             /\ score'.current_modifiers = game'.modifiers
             /\ score'.modifiers_text = as_text(score'.current_modifiers)
       /\ (pc # "handle_ui" /\ ~(pc = "update" /\ game.restart))
          => /\ score'.modifiers_text = score.modifiers_text
             /\ score'.current_modifiers = score.current_modifiers]_vars

\* C22: HandleUiSystem has run in a tick that killed the player, and the
\* text says so.
C22_Witness ==
    /\ pc = "update"
    /\ Dead
    /\ ~ModifiersStale
    /\ score.modifiers_text = as_text(game.modifiers)
    /\ "dead" \in {score.modifiers_text[i] : i \in DOMAIN score.modifiers_text}

\* The pair p is one the handler acts on: neither collider is deferred.
Resolved(p) == \A e \in p : ~IsDeferred(ents[e].collider)

\* The entity is spared by the handler: the ship of an immortal player.
Spared(e) == ents[e].collider = "Ship" /\ Immortal

\* The handler can be called for a pair that is still to be handled.
HandlerCanRun ==
    \E p \in pairs \ done :
    \E a \in p :
    \E b \in p \ {a} :
    \E ra \in ClusterRands(ents, a), rb \in ClusterRands(ents, b) :
        LET h == HandlePair(World, a, b, ra, rb)
        IN  ~h.w.full /\ h.w.score.asteroids <= MaxScore

\* CollisionSystem has run in this frame; the entities are still as it left
\* them.
PassOver == pc \in {"handle_ui", "update", "maintain"}

\* C29: a delete request for an entity that an earlier pair of the tick has
\* deleted already stops nothing.  During the pass both entities of every
\* pair handled are deleted, whatever was deleted before, and while a pair is
\* left the handler can be called for one; after the pass both entities of
\* every intersecting pair are deleted, the collider of every deferred entity
\* that was in no pair is queued, and the frame goes on to its end.
C29_RepeatedDeleteTolerated ==
    /\ pc = "resolve"
          => /\ \A p \in done :
                   Resolved(p) => \A e \in p : Spared(e) \/ ents[e].killed
             /\ pairs # done => HandlerCanRun
    /\ PassOver
          => /\ \A p \in BroadPhasePairs(ents) :
                   Resolved(p) => \A e \in p : Spared(e) \/ ents[e].killed
             /\ \A e \in DeferredEntities :
                   (\A p \in BroadPhasePairs(ents) : e \notin p) => HasUndefer(e)

\* C29: the pass is over; one entity was in two intersecting pairs that the
\* handler acted on, and it and its partners are deleted.
C29_Witness ==
    /\ pc = "maintain"
    /\ \E e \in Joined(ents) :
          /\ Cardinality({p \in BroadPhasePairs(ents) : e \in p /\ Resolved(p)}) >= 2
          /\ \A p \in BroadPhasePairs(ents) :
                (e \in p /\ Resolved(p)) => \A o \in p : ents[o].killed

\* The asteroids queued in this pass at the place of entity e: the children
\* spawned for e.
ChildrenOf(e) ==
    {i \in DOMAIN lazy : /\ lazy[i].all
                         /\ lazy[i].comp.collider = "Deferred(Asteroid)"
                         /\ lazy[i].comp.x = ents[e].x
                         /\ lazy[i].comp.y = ents[e].y}

\* C30: an asteroid is split once in a tick, in however many intersecting
\* pairs it is: during and after the collision pass the children spawned for
\* it are at most those of one split of its area.
C30_SplitOncePerAsteroid ==
    (pc = "resolve" \/ PassOver)
        => \A e \in Joined(ents) :
              ents[e].collider = "Asteroid"
                 => Cardinality(ChildrenOf(e)) <= ClusterCount(Area(e))

\* The asteroids that can exist in the game: of a scale below 2.
CanExist(e) ==
    /\ ents[e].collider = "Asteroid"
    /\ ents[e].radius \in {new_bounded(RandDen + k) : k \in 0 .. RandDen - 1}

\* C24: the destruction of an asteroid that can exist in the game spawns at
\* most 2 children, and none when its area does not exceed 2 * MIN_AREA.
C24_AtMostTwoChildren ==
    (pc = "resolve" \/ PassOver)
        => \A e \in Joined(ents) :
              CanExist(e)
                 => /\ Cardinality(ChildrenOf(e)) <= 2
                    /\ Area(e) <= 2 * min_area => ChildrenOf(e) = {}

\* The step is the call of the handler for a bullet b and an asteroid a of
\* twice MIN_RADIUS.
BulletHitsDouble(a, b) ==
    /\ Handles({a, b})
    /\ ents[a].collider = "Asteroid"
    /\ ents[b].collider = "Bullet"
    /\ ents[a].radius = 2 * MIN_RADIUS

\* C23: the handler called for a bullet and an asteroid of radius
\* 2 * MIN_RADIUS, whose area is 4 * MIN_AREA, deletes the asteroid and
\* spawns exactly 2 children, both deferred, of scale 1 and at the place of
\* the parent.
C23_DoubleRadiusSplitsInTwo ==
    [][\A a \in Joined(ents), b \in Joined(ents) :
          BulletHitsDouble(a, b)
             => /\ Area(a) = 4 * min_area
                /\ Cardinality(NewInserts) = 2
                /\ \A i \in NewInserts : IsChildAt(i, ents[a].x, ents[a].y)
                /\ ents'[a].killed]_vars

\* C23: a bullet has destroyed an asteroid of radius 8, and two children are
\* queued at its place.
C23_Witness ==
    /\ pc = "resolve"
    /\ \E a \in Joined(ents), b \in Joined(ents) :
          /\ done = {{a, b}}
          /\ ents[a].collider = "Asteroid" /\ ents[a].radius = 2 * MIN_RADIUS
          /\ ents[b].collider = "Bullet"
          /\ ents[a].killed /\ ents[b].killed
          /\ Cardinality(ChildrenOf(a)) = 2
          /\ Len(lazy) = 2

\* Entity e is in no intersecting pair of this frame's collision pass (nothing
\* has moved since the pass).
Untouched(e) == \A p \in BroadPhasePairs(ents) : e \notin p

\* The children of a split: asteroids of scale 1, deferred or not.
Children ==
    {e \in Joined(ents) : /\ to_collider(ents[e].collider) = "Asteroid"
                          /\ ents[e].radius = MIN_RADIUS}

\* C25: a deferred entity that was in no intersecting pair of a collision
\* pass has its other kind when the next tick starts, i.e. after the maintain
\* that ends the tick.  The children of the split of tick 0 that are in no
\* pair in tick 2 are plain asteroids when tick 3 starts, whether they left
\* each other in tick 1 or in tick 2.
C25_GraduatesNextTick ==
    [][pc = "maintain"
          => /\ \A e \in DeferredEntities :
                   Untouched(e) => /\ ents'[e].st = "live"
                                   /\ ents'[e].collider = to_collider(ents[e].collider)
             /\ frame = 2
                   => \A e \in Children :
                         Untouched(e) => ents'[e].collider = "Asteroid"]_vars

\* C25: tick 2 ends with two children that were in contact in tick 1, are
\* still deferred and were in no pair of this tick's pass.
C25_Witness ==
    /\ pc = "maintain"
    /\ frame = 2
    /\ \E a \in DeferredEntities, b \in DeferredEntities :
          /\ a # b
          /\ {a, b} \subseteq Children
          /\ Untouched(a) /\ Untouched(b)
          /\ HasUndefer(a) /\ HasUndefer(b)

\* An entity that entities.create() has made and that holds no component.
Bare == [NoEntity EXCEPT !.st = "raised"]

\* C26: an entity created in a tick holds no component until the maintain
\* that ends the tick.  In every step of a system an id that was free is
\* free or bare afterwards; a bare entity stays bare, the components queued
\* for it stay as they were queued (not moved, wrapped or aged), and it is
\* in no pair of the collision pass; the maintain gives it exactly the
\* components queued at its creation.
C26_CreatedAfterAllSystems ==
    [][/\ pc # "maintain"
          => /\ Len(lazy') >= Len(lazy)
             /\ \A i \in DOMAIN lazy : lazy'[i] = lazy[i]
             /\ \A e \in Ids :
                   /\ ents[e].st = "free" => ents'[e] \in {NoEntity, Bare}
                   /\ ents[e].st = "raised" => ents'[e] = Bare
                   /\ ents'[e].st = "raised" => \A p \in pairs' : e \notin p
       /\ pc = "maintain"
          => \A i \in DOMAIN lazy :
                lazy[i].all => /\ ents[lazy[i].e] = Bare
                               /\ ents'[lazy[i].e] = lazy[i].comp]_vars

\* C26: the collision pass runs over the ship while the bullet fired in this
\* tick, queued at the place of the ship with its whole life left, is bare
\* and in no pair.
C26_Witness ==
    /\ pc = "resolve"
    /\ \E i \in DOMAIN lazy :
          /\ lazy[i].all
          /\ lazy[i].comp.collider = "Deferred(Bullet)"
          /\ lazy[i].comp.time_to_live = time_to_live
          /\ lazy[i].comp.x = ents[1].x /\ lazy[i].comp.y = ents[1].y
          /\ ents[1].st = "live" /\ ents[1].collider = "Ship"
          /\ ents[lazy[i].e] = Bare
          /\ \A p \in pairs : lazy[i].e \notin p

\* Bullet e has been deleted by KillBulletsSystem in this tick.
Expired(e) ==
    /\ ents[e].st = "live"
    /\ IsBullet(ents[e])
    /\ ents[e].killed
    /\ ents[e].time_to_live <= 0

\* C27, as stated: a bullet that KillBulletsSystem has deleted in a tick is
\* in no pair of that tick's collision pass.
C27_DeletedBulletNotInPass ==
    pc = "resolve" => \A p \in pairs : \A e \in p : ~Expired(e)

\* C27, amended: a delete takes effect at the maintain that ends the tick.
\* Until then the entity keeps its components and its place in the joins:
\* the bullet whose life ends in KillBulletsSystem is still moved, is given a
\* proxy in the collision pass and is in a pair with every entity whose box
\* meets its own, and the handler of such a pair acts as for any bullet;
\* the maintain frees the id.
C27_DeletedAtMaintain ==
    [][/\ pc = "kill_bullets"
          => \A b \in Bullets :
                ents[b].time_to_live - dt <= 0
                   => ents'[b].st = "live" /\ ents'[b].killed
       /\ pc # "maintain"
          => \A e \in Ids :
                ents[e].killed => /\ ents'[e].killed
                                  /\ ents'[e].st = "live"
                                  /\ ents'[e].collider = ents[e].collider
       /\ pc = "physics_system"
          => \A e \in Ids : Expired(e) => ents'[e] = Move(ents[e], dt)
       /\ pc = "collisions"
          => \A b \in Ids, o \in Ids :
                (/\ Expired(b)
                 /\ o # b
                 /\ ents[o].st = "live"
                 /\ Intersects(Aabb(ents[b]), Aabb(ents[o])))
                   => {b, o} \in pairs'
       /\ \A p \in pairs :
             (Handles(p) /\ Resolved(p) /\ \E b \in p : Expired(b))
                => /\ \A e \in p : Spared(e) \/ ents'[e].killed
                   /\ (\E e \in p : ents[e].collider = "Ship" /\ ~Immortal) => Dead'
       /\ pc = "maintain"
          => \A e \in Ids : ents[e].killed => ents'[e].st = "free"]_vars

\* C27: a bullet whose life ended in this tick was in a pair with the ship,
\* and the handler of the pair has killed the player.
C27_Witness ==
    /\ pc = "resolve"
    /\ Dead
    /\ \E p \in done : \E s \in p, b \in p :
          /\ Expired(b)
          /\ ents[b].collider = "Bullet"
          /\ ents[s].collider = "Ship"
          /\ ents[s].killed

\* The entities that hold components.
Live == {e \in Ids : ents[e].st = "live"}

\* Every entity is inside the arena.
AllWrapped ==
    \A e \in Live : /\ ents[e].x \in 0 .. ARENA_WIDTH
                     /\ ents[e].y \in 0 .. ARENA_HEIGHT

\* The step moves no entity.
NothingMoves == \A e \in Live : ents'[e].x = ents[e].x /\ ents'[e].y = ents[e].y

\* C28: in a tick the steps follow each other in the order ship input,
\* physics, wrap, collision pass, UI sync; the physics step moves every
\* entity by its velocity, the wrap step wraps what the physics step left,
\* and the collision pass finds its pairs from these positions, inside the
\* arena, and moves nothing.
C28_PipelineOrder ==
    [][/\ pc = "ship_input_system" => pc' = "physics_system" /\ NothingMoves
       /\ pc = "physics_system"
            => /\ pc' = "limit_objects"
               /\ \A e \in Live : ents'[e] = Move(ents[e], dt)
       /\ pc = "limit_objects"
            => /\ pc' = "collisions"
               /\ \A e \in Live : /\ ents'[e].x = Wrap(ents[e].x, ARENA_WIDTH)
                                    /\ ents'[e].y = Wrap(ents[e].y, ARENA_HEIGHT)
       /\ pc = "collisions"
            => /\ pc' = "resolve"
               /\ AllWrapped
               /\ NothingMoves
               /\ pairs' = BroadPhasePairs(ents)
       /\ pc = "resolve"
            => /\ pc' \in {"resolve", "handle_ui"}
               /\ AllWrapped
               /\ NothingMoves
               /\ pairs' \in {pairs, {}}
       /\ pc = "handle_ui" => pc' = "update" /\ NothingMoves]_vars

\* C28: the collision pass has found the ship and a bullet that the physics
\* step of this tick took across the upper edge and the wrap step brought
\* back in at the lower one.
C28_Witness ==
    /\ pc = "resolve"
    /\ AllWrapped
    /\ ents[1].collider = "Ship" /\ ents[1].st = "live"
    /\ \E b \in Bullets :
          /\ ents[b].vy > 0
          /\ ents[b].y < ents[1].y
          /\ ents[b].y = ents[1].y + 3 * ((ents[b].vy * dt) \div Second) - ARENA_HEIGHT

\* No delete and no insert is waiting for World::maintain.
NothingQueued ==
    /\ lazy = <<>>
    /\ \A e \in Ids : ~ents[e].killed /\ ents[e].st # "raised"

\* The step leaves the simulation as it is: the entities with every
\* component, the queue, the countdown of the spawner and the score.
Frozen ==
    /\ ents' = ents
    /\ lazy' = lazy
    /\ time_to_spawn' = time_to_spawn
    /\ score' = score
    /\ game'.modifiers.player_is_dead = game.modifiers.player_is_dead

\* C31: a tick of the paused state runs the base dispatcher, the update of
\* PauseState and the maintain, and none of the main systems.  It starts and
\* ends with nothing queued, and each of its steps leaves the entities, their
\* positions, velocities and timers, the countdown of the spawner and the
\* score unchanged; only the flags of GlobalInputSystem change.
C31_PauseFreezes ==
    [][/\ (pc = "base" /\ mode = "Paused")
          => /\ pc' = "pause_update"
             /\ NothingQueued
             /\ Frozen
       /\ pc = "pause_update"
          => /\ pc' = "maintain"
             /\ NothingQueued
             /\ Frozen
       /\ (pc = "maintain" /\ NothingQueued) => Frozen]_vars

\* C31: the game has been paused for two ticks or more, with a bullet in
\* flight and the spawner counting down, and the pause key is up.
C31_Witness ==
    /\ pc = "maintain"
    /\ mode = "Paused"
    /\ actions.pause = "Inactive"
    /\ ~game.pause
    /\ frame >= 3
    /\ Bullets # {}
    /\ time_to_spawn \in 1 .. initial_time_to_spawn - 1

\* The ships whose deletion has not been requested.
ShipsLeft(E) == {e \in Ids : E[e].st = "live" /\ E[e].collider = "Ship" /\ ~E[e].killed}

\* The step is the restart: the update of the main state with the flag set.
Restarts == pc = "update" /\ game.restart

\* C32: in a session the ship is alive exactly while player_is_dead is
\* false.  The step that sets the flag is a call of the collision handler
\* that deletes the ship, and a ship is deleted by no other step; the flag,
\* once set, is cleared by the restart alone, whatever the immortal key
\* does; and when the maintain has ended the tick there is a ship exactly
\* if the flag is false.
C32_ShipAliveIffNotDead ==
    [][/\ (~Dead /\ Dead') => (pc = "resolve" /\ ShipsLeft(ents) # {} /\ ShipsLeft(ents') = {})
       /\ (ShipsLeft(ents) # {} /\ ShipsLeft(ents') = {}) => (pc = "resolve" /\ ~Dead /\ Dead')
       /\ (Dead /\ ~Dead') => Restarts
       /\ pc = "maintain" => (Ships(ents') # {}) = ~Dead']_vars

\* C32: a tick ends with the player dead and no ship, after the player has
\* switched immortality on.
C32_Witness ==
    /\ pc = "base"
    /\ frame >= 1
    /\ Dead
    /\ Immortal
    /\ ~selfImmortal
    /\ Ships(ents) = {}

\* The pair is one non-deferred bullet and one non-deferred asteroid.
PointPair(p) == Kinds(p) = {"Bullet", "Asteroid"}

\* C33: in a session the score never decreases, and it changes in one kind
\* of step only: the handler's call for a pair of one non-deferred bullet
\* and one non-deferred asteroid adds exactly one, so a tick adds the number
\* of such pairs it resolves.  The handler's call for any other pair (with
\* the ship, of two asteroids, of two bullets, with a deferred collider) and
\* every other system leave the score alone; the restart sets it to zero.
C33_ScoreCountsBulletAsteroidPairs ==
    [][/\ ~Restarts => score'.asteroids >= score.asteroids
       /\ Restarts => score'.asteroids = 0
       /\ \A p \in pairs :
             Handles(p) =>
                score'.asteroids = score.asteroids + (IF PointPair(p) THEN 1 ELSE 0)
       /\ (pc # "resolve" /\ ~Restarts) => score'.asteroids = score.asteroids
       /\ (pc = "resolve" /\ done' = done) => score'.asteroids = score.asteroids]_vars

\* C33: a collision pass has resolved a pair of a bullet and an asteroid and
\* a pair of another kind, and the score is the number of the former.
C33_Witness ==
    /\ pc = "resolve"
    /\ pairs = done
    /\ \E p \in done : PointPair(p)
    /\ \E p \in done : ~PointPair(p)
    /\ score.asteroids = Cardinality({p \in done : PointPair(p)})
    /\ score.asteroids >= 1

\* The asteroids queued by the splits of this pass.
QueuedAsteroids ==
    {i \in DOMAIN lazy : lazy[i].all /\ lazy[i].comp.collider = "Deferred(Asteroid)"}

\* C34: splitting ends.  Every asteroid queued by a split has the base
\* radius, which is an area no split divides further, and the asteroids that
\* descend from one asteroid of a scale the timer can give it (entity 1, the
\* only asteroid before the pass) are at most 2.
C34_SplittingEnds ==
    (pc = "resolve" \/ PassOver)
        => /\ \A i \in QueuedAsteroids :
                 /\ lazy[i].comp.radius = MIN_RADIUS
                 /\ ClusterCount(lazy[i].comp.radius * lazy[i].comp.radius) = 0
           /\ CanExist(1) => Cardinality(QueuedAsteroids) <= 2

\* C35: a restart requested while the game is paused is neither lost nor
\* acted on during the pause.  In every step of a paused tick, the step that
\* unpauses included, and in every step of the main tick that follows up to
\* its update, the restart flag stays set and the session stays as it is
\* (entities, queue, score, death); the update of the main state, the first
\* one after the game is unpaused, takes the restart: the session is a fresh
\* one after it and the flag is clear.
C35_RestartKeptThroughPause ==
    [][/\ (game.restart /\ ~Restarts) => game'.restart
       /\ (game.restart /\ mode = "Paused")
             => /\ Frozen
                /\ pc = "pause_update" => mode' = (IF game.pause THEN "Main" ELSE "Paused")
       /\ Restarts => (FreshSession' /\ mode' = "Main" /\ pc' = "maintain")
       /\ pc = "update" => ~game'.restart]_vars

\* C35: the main state's update finds the restart flag set by a key that was
\* pressed and released during the pause.
C35_Witness ==
    /\ pc = "update"
    /\ mode = "Main"
    /\ game.restart
    /\ actions.restart = "Inactive"
    /\ actions.pause = "Inactive"
    /\ ~FreshSession

\* The step samples action a going from up to down: a press.
Pressed(a) == pc = "base" /\ actions[a] = "Inactive" /\ actions'[a] = "Active"

\* The step samples action a down as it was in the sample before: held.
Held(a) == pc = "base" /\ actions[a] = "Active" /\ actions'[a] = "Active"

\* C36: the global actions are edge-triggered.  The step of the global input
\* flips player_is_immortal exactly if the immortal action is pressed in it
\* and raises the restart and the pause flag exactly if theirs is; a key
\* held down triggers nothing.  The key states are kept by every other step,
\* the updates that pause, unpause and restart included, so a key held
\* through them is not a new press; no other step raises a flag, and
\* player_is_immortal is otherwise written by the restart alone.
C36_EdgeTriggered ==
    [][/\ pc = "base"
          => /\ (game'.modifiers.player_is_immortal # game.modifiers.player_is_immortal)
                   = Pressed("immortal")
             /\ game'.restart = (game.restart \/ Pressed("restart"))
             /\ game'.pause = (game.pause \/ Pressed("pause"))
       /\ Held("immortal")
          => game'.modifiers.player_is_immortal = game.modifiers.player_is_immortal
       /\ Held("restart") => game'.restart = game.restart
       /\ pc # "base"
          => /\ actions' = actions
             /\ game'.restart => game.restart
             /\ game'.pause => game.pause
             /\ ~Restarts
                   => game'.modifiers.player_is_immortal = game.modifiers.player_is_immortal]_vars

\* C36: the first tick of a session that a restart has begun, with the restart
\* and the immortal key still down since before the restart: no restart is
\* requested and the player is as mortal as the session began.
C36_Witness ==
    /\ pc = "kill_bullets"
    /\ frame >= 1
    /\ FreshSession
    /\ actions.restart = "Active"
    /\ actions.immortal = "Active"
    /\ ~game.modifiers.player_is_immortal

\* The entities that have their Physical.
Bodies == {e \in Ids : ents[e].st = "live"}

SpeedSq(e) == ents[e].vx * ents[e].vx + ents[e].vy * ents[e].vy

====
